---- MODULE Spec2Model ----
(***************************************************************************)
(* RDSExpert: the streaming RDS group decoder of src/src/App.tsx.          *)
(*                                                                         *)
(* Conventions of the model                                                *)
(*  - a JavaScript string is the sequence of its UTF-16 code units, so     *)
(*    "----" is <<45,45,45,45>> and ' ' is 32;                             *)
(*  - a decoded AF frequency, the string (87.5 + 0.1*code).toFixed(1), is  *)
(*    the integer number of 100 kHz steps (963 stands for "96.3");         *)
(*  - null is NoFreq (0) for a frequency and NoNum (-1) for a number;      *)
(*  - Date.now() is the variable now (milliseconds).                       *)
(***************************************************************************)
EXTENDS Integers, Sequences, FiniteSets, TLC

VARIABLES
    state,          \* decoderState.current
    berHistory,     \* berHistoryRef.current
    lineBuffer,     \* lineBufferRef.current
    tmcIdCounter,   \* tmcIdCounter.current
    analyzerActive, \* analyzerActiveRef.current
    tmcActive,      \* tmcActiveRef.current
    tmcPaused,      \* tmcPausedRef.current
    rdsData,        \* the published snapshot (React state rdsData)
    now,            \* Date.now()
    wire,           \* bytes written by the transport and not yet delivered
    probe,          \* observation of the last decoded group (history variable)
    hist,           \* PI of the last decoded groups, newest last (history variable)
    sent,           \* frames the transport has written (history variable)
    pub,            \* observation of the last publisher tick (history variable)
    conf,           \* decoder state after the last group that ran the deep reset, or the
                    \* last manual reset (history variable)
    psFrom,         \* for each PS position, the PI of the group that wrote it, <<>> when
                    \* it holds its initial value (history variable)
    okSince,        \* groups decoded since the last connect, manual reset or deep reset,
                    \* the group that ran the deep reset included (history variable)
    tmcSeen,        \* per stored TMC message, the user messages with its key that were
                    \* processed since it was stored (history variable)
    delivered,      \* the EON networks and TMC messages of the snapshot handed to
                    \* setRdsData last, as its holder reads them now: the snapshot
                    \* holds the decoder's own objects (lines 1048 and 1063)
    log,            \* the blocks of every group decodeRdsGroup processed and of every
                    \* entry of recentGroups of every snapshot, in order (history
                    \* variable)
    resolver,       \* the TMC location service: its caches, its pending set, its clock,
                    \* the calls of resolveLocations with their position, and the
                    \* requests that departed (history)
    nFrames,        \* number of frames written so far (bounds the behaviours)
    nTicks          \* number of publisher ticks so far (bounds the behaviours)

\* the variables of the decoder, of the page and of their history
decoderVars == <<state, berHistory, lineBuffer, tmcIdCounter, analyzerActive, tmcActive,
                 tmcPaused, rdsData, now, wire, probe, hist, sent, pub, conf, psFrom,
                 okSince, tmcSeen, delivered, log, nFrames, nTicks>>

vars == <<decoderVars, resolver>>

----------------------------------------------------------------------------
(* Bounds of the model *)

\* clock steps in one behaviour
MaxClock == 1

(* Program constants *)

BER_WINDOW_SIZE == 40
GRACE_PERIOD_PACKETS == 10
\* repetitions that confirm a PI
PI_CONFIRM_COUNT == 4
\* Date.now() when the page is loaded
StartTime == 1000

----------------------------------------------------------------------------
(* Characters and small helpers *)

SP == 32
DASH == 45
CR == 13
NoFreq == 0
NoNum == 0 - 1

Fill(n, v) == [i \in 1..n |-> v]
Range(s) == {s[i] : i \in 1..Len(s)}
Pow2(n) == 2 ^ n
\* (x >> lo) & (2^w - 1)
Bits(x, lo, w) == (x \div Pow2(lo)) % Pow2(w)
Bit(x, n) == Bits(x, n, 1) = 1

\* "0123456789ABCDEF"[d]
HexChar(d) == IF d < 10 THEN 48 + d ELSE 55 + d

RECURSIVE HexDigits(_)
\* n.toString(16).toUpperCase()
HexDigits(n) == IF n < 16 THEN <<HexChar(n)>> ELSE HexDigits(n \div 16) \o <<HexChar(n % 16)>>

\* s.padStart(len, '0')
PadStart0(s, len) == IF Len(s) >= len THEN s ELSE Fill(len - Len(s), 48) \o s

\* g.toString(16).toUpperCase().padStart(4, '0')
Hex4(g) == PadStart0(HexDigits(g), 4)
Hex2(g) == PadStart0(HexDigits(g), 2)

UNKNOWN_PI == <<DASH, DASH, DASH, DASH>>

\* RDS_G2_MAP, indexed by byte - 0x80 + 1
RDS_G2_MAP ==
    <<225, 224, 233, 232, 237, 236, 243, 242, 250, 249, 209, 199, 350, 486, 542, 8364,
      226, 228, 196, 235, 203, 239, 207, 246, 214, 252, 220, 229, 197, 230, 198, 307,
      234, 238, 244, 251, 193, 192, 201, 200, 205, 204, 211, 210, 218, 217, 241, 231,
      351, 487, 543, 194, 202, 206, 212, 219, 163, 36, 8364, 223, 39, 39, 39, 39>>

\* windows-1252 differs from Latin-1 on 0x80..0x9F only, which RDS_G2_MAP covers
decodeRdsByte(b) ==
    IF b >= 128 /\ b <= 191 THEN RDS_G2_MAP[b - 127]
    ELSE b

safeChar(c) == IF c = 0 THEN SP ELSE c

decodeAf(code) == IF code >= 1 /\ code <= 204 THEN 875 + code ELSE NoFreq

\* A Map or a Record is the sequence of its entries in insertion order, each
\* entry a record with the field key.
MapIdx(m, k) == IF \E i \in 1..Len(m) : m[i].key = k
                THEN CHOOSE i \in 1..Len(m) : m[i].key = k ELSE 0
MapHas(m, k) == MapIdx(m, k) # 0
MapGet(m, k) == m[MapIdx(m, k)]
MapSet(m, e) == IF MapHas(m, e.key) THEN [m EXCEPT ![MapIdx(m, e.key)] = e] ELSE Append(m, e)

\* `${typeNum}${versionBit === 0 ? 'A' : 'B'}`
TypeNumStr == <<"0", "1", "2", "3", "4", "5", "6", "7", "8", "9", "10", "11", "12", "13", "14", "15">>
GroupStr(groupTypeVal) ==
    TypeNumStr[(groupTypeVal \div 2) + 1] \o (IF groupTypeVal % 2 = 0 THEN "A" ELSE "B")

----------------------------------------------------------------------------
(* Decoder state *)

InitServiceInfo == [ltn |-> 0, sid |-> 0, afi |-> FALSE, mode |-> 0, providerName |-> "[Unavailable]"]

\* the initial value of decoderState
InitState ==
    [ psBuffer |-> Fill(8, SP), psMask |-> Fill(8, FALSE),
      lpsBuffer |-> Fill(32, SP), ptynBuffer |-> Fill(8, SP),
      rtBuffer0 |-> Fill(64, SP), rtBuffer1 |-> Fill(64, SP),
      rtMask0 |-> Fill(64, FALSE), rtMask1 |-> Fill(64, FALSE),
      rtCandidateString |-> <<>>, rtStableSince |-> 0,
      afSet |-> <<>>, afListHead |-> NoFreq, lastGroup0A3 |-> NoNum,
      afBMap |-> <<>>, currentMethodBGroup |-> NoFreq, afType |-> "Unknown",
      currentPi |-> UNKNOWN_PI, piCandidate |-> UNKNOWN_PI, piCounter |-> 0,
      ecc |-> <<>>, lic |-> <<>>, pin |-> <<>>, localTime |-> <<>>, utcTime |-> <<>>,
      pty |-> 0, tp |-> FALSE, ta |-> FALSE, ms |-> FALSE,
      diStereo |-> FALSE, diArtificialHead |-> FALSE, diCompressed |-> FALSE,
      diDynamicPty |-> FALSE, abFlag |-> FALSE,
      rtPlusTags |-> <<>>, rtPlusItemRunning |-> FALSE, rtPlusItemToggle |-> FALSE,
      hasRtPlus |-> FALSE, hasEon |-> FALSE, hasTmc |-> FALSE, rtPlusOdaGroup |-> NoNum,
      eonMap |-> <<>>, tmcServiceInfo |-> InitServiceInfo, tmcBuffer |-> <<>>,
      groupCounts |-> <<>>, groupTotal |-> 0, groupSequence |-> <<>>,
      graceCounter |-> GRACE_PERIOD_PACKETS, isDirty |-> FALSE,
      rawGroupBuffer |-> <<>>,
      piEstablishmentTime |-> 0, psHistoryLogged |-> FALSE,
      psHistoryBuffer |-> <<>>, rtHistoryBuffer |-> <<>>,
      psCandidateString |-> Fill(8, SP), psStableSince |-> 0 ]

----------------------------------------------------------------------------
(* decodeRdsGroup, block A: PI tracking and deep reset *)

\* lines 444-449
TrackPi(s, piHex) ==
    IF piHex = s.piCandidate
    THEN [s EXCEPT !.piCounter = s.piCounter + 1]
    ELSE [s EXCEPT !.piCandidate = piHex, !.piCounter = 1]

\* variants of the confirmation test: one repetition more, one repetition less
PiConfirmedLate(s) ==
    s.piCounter >= PI_CONFIRM_COUNT + 1 \/ (s.currentPi = UNKNOWN_PI /\ s.piCounter >= 1)

PiConfirmedEarly(s) ==
    s.piCounter >= PI_CONFIRM_COUNT - 1 \/ (s.currentPi = UNKNOWN_PI /\ s.piCounter >= 1)

\* line 451
PiConfirmed(s) ==
    s.piCounter >= PI_CONFIRM_COUNT \/ (s.currentPi = UNKNOWN_PI /\ s.piCounter >= 1)

\* DeepResetState that keeps the PS history
DeepResetStateKeepingPs(s, t) ==
    [s EXCEPT
        !.psBuffer = Fill(8, SP), !.lpsBuffer = Fill(32, SP), !.ptynBuffer = Fill(8, SP),
        !.rtBuffer0 = Fill(64, SP), !.rtBuffer1 = Fill(64, SP),
        !.rtMask0 = Fill(64, FALSE), !.rtMask1 = Fill(64, FALSE),
        !.rtCandidateString = <<>>, !.rtStableSince = 0,
        !.afSet = <<>>, !.afListHead = NoFreq, !.afBMap = <<>>,
        !.currentMethodBGroup = NoFreq, !.eonMap = <<>>, !.tmcBuffer = <<>>,
        !.rtPlusTags = <<>>, !.rtPlusItemRunning = FALSE, !.rtPlusItemToggle = FALSE,
        !.hasRtPlus = FALSE, !.hasEon = FALSE, !.hasTmc = FALSE,
        !.ecc = <<>>, !.lic = <<>>, !.pin = <<>>, !.localTime = <<>>, !.utcTime = <<>>,
        !.pty = 0, !.tp = FALSE, !.ta = FALSE, !.ms = FALSE,
        !.diStereo = FALSE, !.diArtificialHead = FALSE, !.diCompressed = FALSE,
        !.diDynamicPty = FALSE, !.abFlag = FALSE, !.rtPlusOdaGroup = NoNum,
        !.lastGroup0A3 = NoNum, !.afType = "Unknown", !.tmcServiceInfo = InitServiceInfo,
        !.groupSequence = <<>>, !.groupCounts = <<>>, !.groupTotal = 0,
        !.piEstablishmentTime = t, !.psHistoryLogged = FALSE,
        !.rtHistoryBuffer = <<>>,
        !.psCandidateString = Fill(8, SP), !.psStableSince = 0,
        !.graceCounter = GRACE_PERIOD_PACKETS]

\* lines 455-515: the station fields of decoderState
DeepResetState(s, t) ==
    [s EXCEPT
        !.psBuffer = Fill(8, SP), !.lpsBuffer = Fill(32, SP), !.ptynBuffer = Fill(8, SP),
        !.rtBuffer0 = Fill(64, SP), !.rtBuffer1 = Fill(64, SP),
        !.rtMask0 = Fill(64, FALSE), !.rtMask1 = Fill(64, FALSE),
        !.rtCandidateString = <<>>, !.rtStableSince = 0,
        !.afSet = <<>>, !.afListHead = NoFreq, !.afBMap = <<>>,
        !.currentMethodBGroup = NoFreq, !.eonMap = <<>>, !.tmcBuffer = <<>>,
        !.rtPlusTags = <<>>, !.rtPlusItemRunning = FALSE, !.rtPlusItemToggle = FALSE,
        !.hasRtPlus = FALSE, !.hasEon = FALSE, !.hasTmc = FALSE,
        !.ecc = <<>>, !.lic = <<>>, !.pin = <<>>, !.localTime = <<>>, !.utcTime = <<>>,
        !.pty = 0, !.tp = FALSE, !.ta = FALSE, !.ms = FALSE,
        !.diStereo = FALSE, !.diArtificialHead = FALSE, !.diCompressed = FALSE,
        !.diDynamicPty = FALSE, !.abFlag = FALSE, !.rtPlusOdaGroup = NoNum,
        !.lastGroup0A3 = NoNum, !.afType = "Unknown", !.tmcServiceInfo = InitServiceInfo,
        !.groupSequence = <<>>, !.groupCounts = <<>>, !.groupTotal = 0,
        !.piEstablishmentTime = t, !.psHistoryLogged = FALSE,
        !.psHistoryBuffer = <<>>, !.rtHistoryBuffer = <<>>,
        !.psCandidateString = Fill(8, SP), !.psStableSince = 0,
        !.graceCounter = GRACE_PERIOD_PACKETS]

\* line 517
DeepResetBer(ber) == Fill(BER_WINDOW_SIZE, 0)

\* a PI block that adopts the confirmed PI and skips the deep reset
PiBlockNoReset(m, g1, t) ==
    LET s1 == TrackPi(m.state, Hex4(g1))
    IN IF PiConfirmed(s1) /\ s1.piCandidate # s1.currentPi
       THEN [m EXCEPT !.state = [s1 EXCEPT !.currentPi = s1.piCandidate], !.reset = TRUE]
       ELSE [m EXCEPT !.state = s1, !.reset = FALSE]

\* lines 441-520. m is the memory the handler works on: the decoder state, the
\* BER window and the TMC id counter; reset tells whether the deep reset ran.
PiBlock(m, g1, t) ==
    LET s1 == TrackPi(m.state, Hex4(g1))
    IN IF PiConfirmed(s1) /\ s1.piCandidate # s1.currentPi
       THEN [m EXCEPT !.state = DeepResetState([s1 EXCEPT !.currentPi = s1.piCandidate], t),
                      !.ber = DeepResetBer(m.ber),
                      !.reset = TRUE]
       ELSE [m EXCEPT !.state = s1, !.reset = FALSE]

----------------------------------------------------------------------------
(* decodeRdsGroup: raw buffer, analyzer, TP and PTY *)

SEQUENCE_CAP == 3000
SEQUENCE_TRIM == 1000

\* toLocaleTimeString('fr-FR'), HH:MM:SS: the second of the day
TimeStr(t) == (t \div 1000) % 86400

\* groupSequence.push(name); if (length > 3000) splice(0, 1000)
PushSequence(sq, name) ==
    LET p == Append(sq, name)
    IN IF Len(p) > SEQUENCE_CAP THEN SubSeq(p, SEQUENCE_TRIM + 1, Len(p)) ELSE p

\* groupCounts[name] = (groupCounts[name] || 0) + 1
CountUp(counts, name) ==
    MapSet(counts, [key |-> name,
                    n |-> (IF MapHas(counts, name) THEN MapGet(counts, name).n ELSE 0) + 1])

\* AnalyzeGroup that leaves the total as it is
AnalyzeGroupUntotalled(s, groupStr) ==
    [s EXCEPT !.groupCounts = CountUp(s.groupCounts, groupStr),
              !.groupSequence = PushSequence(s.groupSequence, groupStr)]

\* lines 539-546
AnalyzeGroup(s, groupStr) ==
    [s EXCEPT !.groupCounts = CountUp(s.groupCounts, groupStr),
              !.groupTotal = s.groupTotal + 1,
              !.groupSequence = PushSequence(s.groupSequence, groupStr)]

\* lines 522-549
Common(s, g, env) ==
    LET groupTypeVal == Bits(g[2], 11, 5)
        groupStr == GroupStr(groupTypeVal)
        s1 == [s EXCEPT !.rawGroupBuffer =
                  Append(s.rawGroupBuffer,
                         [type |-> groupStr, blocks |-> g, time |-> TimeStr(env.now)])]
        s2 == IF env.analyzerActive THEN AnalyzeGroup(s1, groupStr) ELSE s1
    IN [s2 EXCEPT !.tp = Bit(g[2], 10), !.pty = Bits(g[2], 5, 5)]

----------------------------------------------------------------------------
(* Group 0A/0B: PS, flags and the AF engine *)

\* lines 587-589
processMethodAFreq(afSet, f) == IF f \in Range(afSet) THEN afSet ELSE Append(afSet, f)

\* RotateHead that leaves the head frequency where it was appended
RotateHeadInPlace(afSet, headFreq) == afSet

\* lines 597-601: move the head frequency to the front
RotateHead(afSet, headFreq) ==
    LET headIdx == CHOOSE i \in 1..Len(afSet) : afSet[i] = headFreq
    IN IF headIdx > 1
       THEN <<headFreq>> \o SubSeq(afSet, 1, headIdx - 1) \o SubSeq(afSet, headIdx + 1, Len(afSet))
       ELSE afSet

\* lines 591-616
AfHeaderOrList(s, af1, af2) ==
    IF af1 >= 225 /\ af1 <= 249
    THEN LET headFreq == decodeAf(af2)
         IN IF headFreq # NoFreq
            THEN [s EXCEPT
                    !.afSet = RotateHead(processMethodAFreq(s.afSet, headFreq), headFreq),
                    !.afListHead = headFreq,
                    !.currentMethodBGroup = headFreq,
                    !.afBMap = IF MapHas(s.afBMap, headFreq)
                               THEN [s.afBMap EXCEPT ![MapIdx(s.afBMap, headFreq)].expected = af1 - 224]
                               ELSE Append(s.afBMap, [key |-> headFreq, expected |-> af1 - 224,
                                                      afs |-> <<>>, matchCount |-> 0, pairCount |-> 0])]
            ELSE s
    ELSE LET a1 == IF decodeAf(af1) # NoFreq THEN processMethodAFreq(s.afSet, decodeAf(af1)) ELSE s.afSet
             a2 == IF decodeAf(af2) # NoFreq THEN processMethodAFreq(a1, decodeAf(af2)) ELSE a1
         IN [s EXCEPT !.afSet = a2]

\* lines 618-638
AfMethodBPopulate(s, af1, af2) ==
    LET f1 == decodeAf(af1)
        f2 == decodeAf(af2)
        h == s.currentMethodBGroup
    IN IF f1 # NoFreq /\ f2 # NoFreq /\ h # NoFreq /\ MapHas(s.afBMap, h)
       THEN LET i == MapIdx(s.afBMap, h)
                e == s.afBMap[i]
            IN [s EXCEPT !.afBMap[i] =
                   [e EXCEPT !.afs = processMethodAFreq(processMethodAFreq(e.afs, f1), f2),
                             !.pairCount = e.pairCount + 1,
                             !.matchCount = e.matchCount + (IF f1 = h \/ f2 = h THEN 1 ELSE 0)]]
       ELSE s

\* lines 641-650: size >= expected * 0.75 is 4*size >= 3*expected
PlausiblyFull(entry) ==
    LET size == Len(entry.afs)
        expected == entry.expected
    IN /\ expected # 0
       /\ \/ 4 * size >= 3 * expected
          \/ (expected <= 2 /\ size = expected)
          \/ (expected > 5 /\ size > 4)

\* AfTypeOf that takes Method B only from several plausibly full lists
AfTypeOfManyOnly(afBMap) ==
    IF Cardinality({i \in 1..Len(afBMap) : PlausiblyFull(afBMap[i])}) > 1 THEN "B" ELSE "A"

\* lines 640-662: matchCount / pairCount > 0.35 is 20*matchCount > 7*pairCount
AfTypeOf(afBMap) ==
    LET valid == {i \in 1..Len(afBMap) : PlausiblyFull(afBMap[i])}
        isExplicitStandardB ==
            /\ Cardinality(valid) = 1
            /\ LET e == afBMap[CHOOSE i \in valid : TRUE]
               IN e.pairCount > 0 /\ 20 * e.matchCount > 7 * e.pairCount
    IN IF Cardinality(valid) > 1 \/ isExplicitStandardB THEN "B" ELSE "A"

\* lines 578-663
AfEngine(s, g3) ==
    IF s.lastGroup0A3 # g3
    THEN LET af1 == Bits(g3, 8, 8)
             af2 == Bits(g3, 0, 8)
             s1 == AfHeaderOrList([s EXCEPT !.lastGroup0A3 = g3], af1, af2)
             s2 == AfMethodBPopulate(s1, af1, af2)
         IN [s2 EXCEPT !.afType = AfTypeOf(s2.afBMap)]
    ELSE s

\* WritePs with the two bytes of block 4 in the opposite order
WritePsSwapped(psBuffer, address, g4) ==
    [psBuffer EXCEPT ![address * 2 + 1] = safeChar(decodeRdsByte(Bits(g4, 0, 8))),
                     ![address * 2 + 2] = safeChar(decodeRdsByte(Bits(g4, 8, 8)))]

\* lines 571-575
WritePs(psBuffer, address, g4) ==
    [psBuffer EXCEPT ![address * 2 + 1] = safeChar(decodeRdsByte(Bits(g4, 8, 8))),
                     ![address * 2 + 2] = safeChar(decodeRdsByte(Bits(g4, 0, 8)))]

\* lines 555-665
Group0(s, g, isGroupA) ==
    LET diBit == Bit(g[2], 2)
        address == Bits(g[2], 0, 2)
        s1 == [s EXCEPT
                 !.ta = Bit(g[2], 4), !.ms = Bit(g[2], 3),
                 !.diDynamicPty = IF address = 0 THEN diBit ELSE @,
                 !.diCompressed = IF address = 1 THEN diBit ELSE @,
                 !.diArtificialHead = IF address = 2 THEN diBit ELSE @,
                 !.diStereo = IF address = 3 THEN diBit ELSE @,
                 !.psBuffer = WritePs(s.psBuffer, address, g[4])]
    IN IF isGroupA THEN AfEngine(s1, g[3]) ELSE s1

----------------------------------------------------------------------------
(* Group 2A/2B: RadioText *)

\* line 824
MarkCached(tags) == [i \in 1..Len(tags) |-> [tags[i] EXCEPT !.isCached = TRUE]]

\* a flip that updates the flag and the tags and keeps the old text and mask
RtFlipKeepsText(s, textAbFlag) ==
    IF s.abFlag # textAbFlag
    THEN [s EXCEPT !.abFlag = textAbFlag, !.rtPlusTags = MarkCached(s.rtPlusTags)]
    ELSE s

\* lines 822-833
RtFlip(s, textAbFlag) ==
    IF s.abFlag # textAbFlag
    THEN [s EXCEPT !.abFlag = textAbFlag,
                   !.rtPlusTags = MarkCached(s.rtPlusTags),
                   !.rtMask1 = IF textAbFlag THEN Fill(64, FALSE) ELSE @,
                   !.rtMask0 = IF textAbFlag THEN @ ELSE Fill(64, FALSE),
                   !.rtBuffer1 = IF textAbFlag THEN Fill(64, SP) ELSE @,
                   !.rtBuffer0 = IF textAbFlag THEN @ ELSE Fill(64, SP)]
    ELSE s

\* the characters a 2A (four) or 2B (two) group carries
RtChars(g, isGroup2A) ==
    IF isGroup2A
    THEN <<decodeRdsByte(Bits(g[3], 8, 8)), decodeRdsByte(Bits(g[3], 0, 8)),
           decodeRdsByte(Bits(g[4], 8, 8)), decodeRdsByte(Bits(g[4], 0, 8))>>
    ELSE <<decodeRdsByte(Bits(g[4], 8, 8)), decodeRdsByte(Bits(g[4], 0, 8))>>

\* targetBuffer[idx + k] = c_k for the characters cs
WriteAt(buf, idx, cs) ==
    [i \in 1..Len(buf) |-> IF i > idx /\ i <= idx + Len(cs) THEN cs[i - idx] ELSE buf[i]]

\* targetMask[idx + k] = true
MarkAt(mask, idx, n) ==
    [i \in 1..Len(mask) |-> IF i > idx /\ i <= idx + n THEN TRUE ELSE mask[i]]

\* lines 835-861
RtWrite(s, g, isGroup2A, textAbFlag) ==
    LET address == Bits(g[2], 0, 4)
        cs == RtChars(g, isGroup2A)
        idx == IF isGroup2A THEN address * 4 ELSE address * 2
        inRange == IF isGroup2A THEN idx < 64 ELSE idx < 32
    IN IF ~inRange THEN s
       ELSE IF textAbFlag
       THEN [s EXCEPT !.rtBuffer1 = WriteAt(@, idx, cs), !.rtMask1 = MarkAt(@, idx, Len(cs))]
       ELSE [s EXCEPT !.rtBuffer0 = WriteAt(@, idx, cs), !.rtMask0 = MarkAt(@, idx, Len(cs))]

\* lines 820-862
Group2(s, g, isGroup2A) ==
    LET textAbFlag == Bit(g[2], 4)
    IN RtWrite(RtFlip(s, textAbFlag), g, isGroup2A, textAbFlag)


----------------------------------------------------------------------------
(* Number and time formatting *)

RECURSIVE DecDigits(_)
\* n.toString() for n >= 0
DecDigits(n) == IF n < 10 THEN <<48 + n>> ELSE DecDigits(n \div 10) \o <<48 + (n % 10)>>

DecStr(n) == IF n < 0 THEN <<DASH>> \o DecDigits(0 - n) ELSE DecDigits(n)

\* pad: n.toString().padStart(2, '0')
pad(n) == PadStart0(DecStr(n), 2)

\* `${pinDay}. ${pad(pinHour)}:${pad(pinMin)}`
PinStr(pinDay, pinHour, pinMin) ==
    DecStr(pinDay) \o <<46, SP>> \o pad(pinHour) \o <<58>> \o pad(pinMin)

----------------------------------------------------------------------------
(* Group 8A: TMC *)

TMC_CAP == 100
\* expiresTime "--:--:--" and "Indefinite"
NoExpiry == 0 - 1
Indefinite == 0 - 2

\* lines 149-161
getDurationLabel(code) ==
    CASE code = 0 -> [label |-> "No duration", minutes |-> 0]
      [] code = 1 -> [label |-> "15 minutes", minutes |-> 15]
      [] code = 2 -> [label |-> "30 minutes", minutes |-> 30]
      [] code = 3 -> [label |-> "1 hour", minutes |-> 60]
      [] code = 4 -> [label |-> "2 hours", minutes |-> 120]
      [] code = 5 -> [label |-> "3 hours", minutes |-> 180]
      [] code = 6 -> [label |-> "4 hours", minutes |-> 240]
      [] code = 7 -> [label |-> "Longer Lasting", minutes |-> 0]
      [] OTHER -> [label |-> "Unknown", minutes |-> 0]

\* lines 168-181
getEventCategory(code) ==
    CASE code = 0 -> "Unknown"
      [] code >= 1 /\ code <= 100 -> "Traffic Problem"
      [] code > 100 /\ code <= 199 -> "Accident"
      [] code > 199 /\ code <= 300 -> "Congestion"
      [] code > 300 /\ code <= 400 -> "Delay"
      [] code > 400 /\ code <= 500 -> "Road Works"
      [] code > 500 /\ code <= 600 -> "Road Closure"
      [] code > 600 /\ code <= 700 -> "Restriction"
      [] code > 700 /\ code <= 800 -> "Exit/Entry"
      [] code > 800 /\ code <= 900 -> "Weather"
      [] code > 900 /\ code <= 1000 -> "Road Cond."
      [] OTHER -> "Event"

\* lines 676-693
TmcTuning(s, g) ==
    LET ltn == Bits(g[3], 10, 6)
        sid == Bits(g[3], 2, 6)
    IN IF ltn > 0 \/ sid > 0
       THEN [s EXCEPT !.tmcServiceInfo =
                [@ EXCEPT !.ltn = ltn, !.sid = sid, !.afi = Bit(g[3], 9), !.mode = Bits(g[3], 8, 1)]]
       ELSE s

\* TmcFind that ignores the direction
TmcFindAnyDirection(buf, location, eventCode, direction, extent) ==
    LET hits == {i \in 1..Len(buf) :
                    /\ buf[i].locationCode = location /\ buf[i].eventCode = eventCode
                    /\ buf[i].extent = extent}
    IN IF hits = {} THEN 0 ELSE CHOOSE i \in hits : \A j \in hits : i <= j

\* lines 720-725: findIndex on the dedup key, 0 when absent
TmcFind(buf, location, eventCode, direction, extent) ==
    LET hits == {i \in 1..Len(buf) :
                    /\ buf[i].locationCode = location /\ buf[i].eventCode = eventCode
                    /\ buf[i].direction = direction /\ buf[i].extent = extent}
    IN IF hits = {} THEN 0 ELSE CHOOSE i \in hits : \A j \in hits : i <= j

\* lines 708-718
TmcExpires(durationCode, t) ==
    LET durInfo == getDurationLabel(durationCode)
    IN IF durInfo.minutes > 0 THEN TimeStr(t + durInfo.minutes * 60000)
       ELSE IF durationCode = 7 THEN Indefinite ELSE NoExpiry

\* TmcUser that stores a new message at the tail
TmcUserAppending(m, g, t) ==
    LET s == m.state
        durationCode == Bits(g[3], 13, 3)
        diversion == Bit(g[3], 12)
        direction == Bit(g[3], 11)
        extent == Bits(g[3], 8, 3)
        eventCode == Bits(g[3], 0, 8) * 8 + Bits(g[4], 12, 3)
        location == Bits(g[4], 0, 12)
        receivedTime == TimeStr(t)
        expiresTime == TmcExpires(durationCode, t)
        existingIndex == TmcFind(s.tmcBuffer, location, eventCode, direction, extent)
        newMsg == [id |-> m.tmcId, receivedTime |-> receivedTime, expiresTime |-> expiresTime,
                   isSystem |-> FALSE, label |-> getEventCategory(eventCode),
                   cc |-> Bits(g[2], 0, 3), eventCode |-> eventCode, locationCode |-> location,
                   extent |-> extent, durationCode |-> durationCode, direction |-> direction,
                   diversion |-> diversion, urgency |-> "Normal", nature |-> "Information",
                   durationLabel |-> getDurationLabel(durationCode).label, updateCount |-> 1]
        pushed == s.tmcBuffer \o <<newMsg>>
    IN IF existingIndex # 0
       THEN [m EXCEPT !.state.tmcBuffer[existingIndex] =
                [@ EXCEPT !.receivedTime = receivedTime, !.expiresTime = expiresTime,
                          !.updateCount = (IF @ = 0 THEN 1 ELSE @) + 1]]
       ELSE [m EXCEPT !.tmcId = m.tmcId + 1,
                      !.state.tmcBuffer = IF Len(pushed) > TMC_CAP
                                          THEN SubSeq(pushed, 1, Len(pushed) - 1) ELSE pushed]

\* lines 695-753. m carries the decoder state and the id counter
TmcUser(m, g, t) ==
    LET s == m.state
        durationCode == Bits(g[3], 13, 3)
        diversion == Bit(g[3], 12)
        direction == Bit(g[3], 11)
        extent == Bits(g[3], 8, 3)
        eventCode == Bits(g[3], 0, 8) * 8 + Bits(g[4], 12, 3)
        location == Bits(g[4], 0, 12)
        receivedTime == TimeStr(t)
        expiresTime == TmcExpires(durationCode, t)
        existingIndex == TmcFind(s.tmcBuffer, location, eventCode, direction, extent)
        newMsg == [id |-> m.tmcId, receivedTime |-> receivedTime, expiresTime |-> expiresTime,
                   isSystem |-> FALSE, label |-> getEventCategory(eventCode),
                   cc |-> Bits(g[2], 0, 3), eventCode |-> eventCode, locationCode |-> location,
                   extent |-> extent, durationCode |-> durationCode, direction |-> direction,
                   diversion |-> diversion, urgency |-> "Normal", nature |-> "Information",
                   durationLabel |-> getDurationLabel(durationCode).label, updateCount |-> 1]
        pushed == <<newMsg>> \o s.tmcBuffer
    IN IF existingIndex # 0
       THEN [m EXCEPT !.state.tmcBuffer[existingIndex] =
                [@ EXCEPT !.receivedTime = receivedTime, !.expiresTime = expiresTime,
                          !.updateCount = (IF @ = 0 THEN 1 ELSE @) + 1]]
       ELSE [m EXCEPT !.tmcId = m.tmcId + 1,
                      !.state.tmcBuffer = IF Len(pushed) > TMC_CAP
                                          THEN SubSeq(pushed, 1, Len(pushed) - 1) ELSE pushed]

\* Group8A that does not look at the pause
Group8AUnpaused(m, g, env) ==
    LET m1 == [m EXCEPT !.state.hasTmc = TRUE]
    IN IF env.tmcActive
       THEN IF Bit(g[2], 4) THEN [m1 EXCEPT !.state = TmcTuning(m1.state, g)]
            ELSE TmcUser(m1, g, env.now)
       ELSE m1

\* lines 668-756
Group8A(m, g, env) ==
    LET m1 == [m EXCEPT !.state.hasTmc = TRUE]
    IN IF env.tmcActive /\ ~env.tmcPaused
       THEN IF Bit(g[2], 4) THEN [m1 EXCEPT !.state = TmcTuning(m1.state, g)]
            ELSE TmcUser(m1, g, env.now)
       ELSE m1

----------------------------------------------------------------------------
(* Group 14A: EON *)

EON_MAPPED_CAP == 4

RECURSIVE SortAsc(_)
\* af.sort((a, b) => parseFloat(a) - parseFloat(b)) on a list without duplicates
SortAsc(q) ==
    IF Len(q) <= 1 THEN q
    ELSE LET i == CHOOSE i \in 1..Len(q) : \A j \in 1..Len(q) : q[i] <= q[j]
         IN <<q[i]>> \o SortAsc(SubSeq(q, 1, i - 1) \o SubSeq(q, i + 1, Len(q)))

\* lines 762-766
NewNetwork(eonPi, t) ==
    [key |-> eonPi, pi |-> eonPi, ps |-> Fill(8, SP), psBuffer |-> Fill(8, SP),
     tp |-> FALSE, ta |-> FALSE, pty |-> 0, pin |-> <<>>, linkageInfo |-> <<>>,
     af |-> <<>>, mappedFreqs |-> <<>>, lastUpdate |-> t]

\* EonMapped that never drops a mapped frequency
EonMappedUncapped(network, g3) ==
    LET freqMain == decodeAf(Bits(g3, 8, 8))
        freqMapped == decodeAf(Bits(g3, 0, 8))
        mapStr == <<freqMain, freqMapped>>
    IN IF freqMain # NoFreq /\ freqMapped # NoFreq /\ mapStr \notin Range(network.mappedFreqs)
       THEN [network EXCEPT !.mappedFreqs = Append(network.mappedFreqs, mapStr)]
       ELSE network

\* lines 786-795: the string `${freqMain} -> ${freqMapped}` is the pair of the two
EonMapped(network, g3) ==
    LET freqMain == decodeAf(Bits(g3, 8, 8))
        freqMapped == decodeAf(Bits(g3, 0, 8))
        mapStr == <<freqMain, freqMapped>>
        pushed == Append(network.mappedFreqs, mapStr)
    IN IF freqMain # NoFreq /\ freqMapped # NoFreq /\ mapStr \notin Range(network.mappedFreqs)
       THEN [network EXCEPT !.mappedFreqs =
                IF Len(pushed) > EON_MAPPED_CAP THEN Tail(pushed) ELSE pushed]
       ELSE network

\* lines 770-806
EonVariant(network, g) ==
    LET variant == Bits(g[2], 0, 4)
        g3 == g[3]
    IN CASE variant <= 3 ->
              LET b == [network.psBuffer EXCEPT
                          ![variant * 2 + 1] = safeChar(decodeRdsByte(Bits(g3, 8, 8))),
                          ![variant * 2 + 2] = safeChar(decodeRdsByte(Bits(g3, 0, 8)))]
              IN [network EXCEPT !.psBuffer = b, !.ps = b]
         [] variant = 4 ->
              LET f1 == decodeAf(Bits(g3, 8, 8))
                  f2 == decodeAf(Bits(g3, 0, 8))
                  a1 == IF f1 # NoFreq THEN processMethodAFreq(network.af, f1) ELSE network.af
                  a2 == IF f2 # NoFreq THEN processMethodAFreq(a1, f2) ELSE a1
              IN [network EXCEPT !.af = SortAsc(a2)]
         [] variant >= 5 /\ variant <= 9 -> EonMapped(network, g3)
         [] variant = 12 -> [network EXCEPT !.linkageInfo = Hex4(g3)]
         [] variant = 13 -> [network EXCEPT !.pty = Bits(g3, 11, 5), !.ta = Bit(g3, 0)]
         [] variant = 14 ->
              IF Bits(g3, 11, 5) # 0
              THEN [network EXCEPT !.pin = PinStr(Bits(g3, 11, 5), Bits(g3, 6, 5), Bits(g3, 0, 6))]
              ELSE network
         [] OTHER -> network

\* lines 759-807
Group14A(s, g, t) ==
    LET eonPi == Hex4(g[4])
        map1 == IF MapHas(s.eonMap, eonPi) THEN s.eonMap ELSE Append(s.eonMap, NewNetwork(eonPi, t))
        i == MapIdx(map1, eonPi)
        network == [map1[i] EXCEPT !.lastUpdate = t, !.tp = Bit(g[2], 4)]
    IN [s EXCEPT !.hasEon = TRUE, !.eonMap = [map1 EXCEPT ![i] = EonVariant(network, g)]]

----------------------------------------------------------------------------
(* Groups 1A, 3A, 10A, 15A/15B *)

\* lines 810-818
Group1A(s, g) ==
    LET variant == Bits(g[3], 12, 3)
        pinDay == Bits(g[4], 11, 5)
    IN [s EXCEPT !.ecc = IF variant = 0 THEN Hex2(Bits(g[3], 0, 8)) ELSE @,
                 !.lic = IF variant = 3 THEN Hex2(Bits(g[3], 0, 8)) ELSE @,
                 !.pin = IF pinDay # 0 THEN PinStr(pinDay, Bits(g[4], 6, 5), Bits(g[4], 0, 6)) ELSE @]

RTPLUS_AID == 19415 \* 0x4BD7

\* lines 863-868
Group3A(s, g) ==
    IF g[3] = RTPLUS_AID \/ g[4] = RTPLUS_AID
    THEN [s EXCEPT !.rtPlusOdaGroup = Bits(g[2], 0, 5)]
    ELSE s

\* lines 928-939
Group10A(s, g) ==
    [s EXCEPT !.ptynBuffer = WriteAt(@, Bits(g[2], 0, 1) * 4, RtChars(g, TRUE))]

\* lines 940-961
Group15(s, g, isGroup15A) ==
    LET address == Bits(g[2], 0, 4)
        idx == IF isGroup15A THEN address * 4 ELSE address * 2
    IN IF idx < 32 THEN [s EXCEPT !.lpsBuffer = WriteAt(@, idx, RtChars(g, isGroup15A))] ELSE s


----------------------------------------------------------------------------
(* RT+ (group 12A, or the group bound by 3A) *)

RTPLUS_CAP == 6

\* RT_PLUS_LABELS, indexed by content type 1..63
RT_PLUS_LABELS ==
    <<"TITLE", "ALBUM", "TRACK NUMBER", "ARTIST", "COMPOSITION", "MOVEMENT", "CONDUCTOR",
      "COMPOSER", "BAND", "COMMENT (MUSIC)", "GENRE (MUSIC)", "NEWS", "LOCAL NEWS",
      "STOCKMARKET", "SPORT", "LOTTERY", "HOROSCOPE", "DAILY DIVERSION (INFO)", "HEALTH INFO",
      "EVENT", "SCENE (INFO)", "CINEMA", "STUPIDITY MACHINE", "DATE & TIME", "WEATHER",
      "TRAFFIC INFO", "ALARM (INFO)", "ADVERTISEMENT", "WEBSITE/URL", "OTHER (INFO)",
      "STATION NAME (SHORT)", "STATION NAME (LONG)", "CURRENT PROGRAM", "NEXT PROGRAM",
      "PART (PROGRAM)", "HOST (PROGRAM)", "EDITORIAL STAFF (PROGRAM)", "FREQUENCY",
      "HOMEPAGE", "SUB-CHANNEL", "PHONE: HOTLINE", "PHONE: STUDIO", "PHONE: OTHER",
      "SMS: STUDIO", "SMS: OTHER", "EMAIL: HOTLINE", "EMAIL: STUDIO", "MMS: OTHER", "CHAT",
      "CHAT: CENTRE", "VOTE: QUESTION", "VOTE: CENTRE", "TAG 53", "TAG 54", "TAG 55",
      "TAG 56", "TAG 57", "TAG 58", "PLACE", "APPOINTMENT", "IDENTIFIER", "PURCHASE",
      "GET DATA">>

\* the characters String.prototype.trim removes
IsTrimmed(c) ==
    c \in ({9, 10, 11, 12, 13, 32, 160, 5760, 8232, 8233, 8239, 8287, 12288, 65279}
           \cup (8192..8202))

RECURSIVE TrimStart(_)
TrimStart(q) == IF q # <<>> /\ IsTrimmed(Head(q)) THEN TrimStart(Tail(q)) ELSE q

RECURSIVE TrimEnd(_)
TrimEnd(q) == IF q # <<>> /\ IsTrimmed(q[Len(q)]) THEN TrimEnd(SubSeq(q, 1, Len(q) - 1)) ELSE q

Trim(q) == TrimEnd(TrimStart(q))

\* text.replace(/[\x00-\x1F]/g, '').trim()
CleanText(q) == Trim(SelectSeq(q, LAMBDA c : c > 31))

\* rtStr.substring(start, start + lengthCharCount), start counted from 0
Substring(q, from, to) ==
    LET a == IF from > Len(q) THEN Len(q) ELSE from
        b == IF to > Len(q) THEN Len(q) ELSE to
    IN SubSeq(q, a + 1, b)

\* lines 879-894
processTag(s, type, start, len, t) ==
    LET currentRt == IF s.abFlag THEN s.rtBuffer1 ELSE s.rtBuffer0
        text == CleanText(Substring(currentRt, start, start + len + 1))
    IN IF type = 0 \/ start >= Len(currentRt) \/ Len(text) = 0 THEN s
       ELSE [s EXCEPT !.isDirty = TRUE,
                      !.rtPlusTags = MapSet(@, [key |-> type, contentType |-> type, start |-> start,
                                                length |-> len, label |-> RT_PLUS_LABELS[type],
                                                text |-> text, isCached |-> FALSE, timestamp |-> t])]

RECURSIVE EvictOldest(_)
\* lines 897-903: drop the first tag of the stable sort by timestamp until 6 remain
EvictOldest(tags) ==
    IF Len(tags) <= RTPLUS_CAP THEN tags
    ELSE LET i == CHOOSE i \in 1..Len(tags) :
                     \A j \in 1..Len(tags) :
                        \/ tags[i].timestamp < tags[j].timestamp
                        \/ (tags[i].timestamp = tags[j].timestamp /\ i <= j)
         IN EvictOldest(SubSeq(tags, 1, i - 1) \o SubSeq(tags, i + 1, Len(tags)))

\* lines 869-904
GroupRtPlus(s, g, t) ==
    LET s0 == [s EXCEPT !.hasRtPlus = TRUE,
                        !.rtPlusItemRunning = Bit(g[2], 4),
                        !.rtPlusItemToggle = Bit(g[2], 3)]
        s1 == processTag(s0, Bits(g[3], 13, 3), Bits(g[3], 7, 6), Bits(g[3], 1, 6), t)
        s2 == processTag(s1, Bits(g[4], 11, 5), Bits(g[4], 5, 6), Bits(g[4], 0, 5), t)
    IN [s2 EXCEPT !.rtPlusTags = EvictOldest(@)]

----------------------------------------------------------------------------
(* Group 4A: clock time *)

\* lines 425-434, in exact arithmetic: Math.floor((mjd - 15078.2) / 365.25) is
\* (100*mjd - 1507820) \div 36525, and so on
convertMjd(mjd) ==
    LET yp == (100 * mjd - 1507820) \div 36525
        ypDays == (yp * 1461) \div 4
        mp == (10000 * (mjd - ypDays) - 149561000) \div 306001
        day == mjd - 14956 - ypDays - ((mp * 306001) \div 10000)
        k == IF mp = 14 \/ mp = 15 THEN 1 ELSE 0
    IN [day |-> day, month |-> mp - 1 - k * 12, year |-> 1900 + yp + k]

\* Group4A with the sign of the offset taken the other way round
Group4AInverted(s, g) ==
    LET mjdCalc == Bits(g[2], 0, 2) * 32768 + Bits(g[3], 1, 15)
        date == convertMjd(mjdCalc)
        g4TimeReconstructed == Bits(g[3], 0, 1) * 32768 + (g[4] \div 2)
        utcHour == Bits(g4TimeReconstructed, 11, 5)
        utcMin == Bits(g4TimeReconstructed, 5, 6)
        offsetMin == Bits(g[4], 0, 4) * 30
        raw == IF Bit(g[4], 4) THEN utcHour * 60 + utcMin + offsetMin
               ELSE utcHour * 60 + utcMin - offsetMin
        wrapped == IF raw < 0 THEN raw + 1440 ELSE raw
        totalMin == IF wrapped >= 1440 THEN wrapped - 1440 ELSE wrapped
        dateStr == pad(date.day) \o <<47>> \o pad(date.month) \o <<47>> \o DecStr(date.year)
    IN IF mjdCalc = 0 THEN s
       ELSE [s EXCEPT !.utcTime = dateStr \o <<SP>> \o pad(utcHour) \o <<58>> \o pad(utcMin),
                      !.localTime = dateStr \o <<SP>> \o pad(totalMin \div 60) \o <<58>>
                                    \o pad(totalMin % 60)]

\* lines 905-927
Group4A(s, g) ==
    LET mjdCalc == Bits(g[2], 0, 2) * 32768 + Bits(g[3], 1, 15)
        date == convertMjd(mjdCalc)
        g4TimeReconstructed == Bits(g[3], 0, 1) * 32768 + (g[4] \div 2)
        utcHour == Bits(g4TimeReconstructed, 11, 5)
        utcMin == Bits(g4TimeReconstructed, 5, 6)
        offsetMin == Bits(g[4], 0, 4) * 30
        raw == IF Bit(g[4], 4) THEN utcHour * 60 + utcMin - offsetMin
               ELSE utcHour * 60 + utcMin + offsetMin
        wrapped == IF raw < 0 THEN raw + 1440 ELSE raw
        totalMin == IF wrapped >= 1440 THEN wrapped - 1440 ELSE wrapped
        dateStr == pad(date.day) \o <<47>> \o pad(date.month) \o <<47>> \o DecStr(date.year)
    IN IF mjdCalc = 0 THEN s
       ELSE [s EXCEPT !.utcTime = dateStr \o <<SP>> \o pad(utcHour) \o <<58>> \o pad(utcMin),
                      !.localTime = dateStr \o <<SP>> \o pad(totalMin \div 60) \o <<58>>
                                    \o pad(totalMin % 60)]

----------------------------------------------------------------------------
(* decodeRdsGroup *)

\* a test that takes 11A for an RT+ group as well
IsRtPlusGroupWith11A(s, groupTypeVal) ==
    groupTypeVal = 22 \/ groupTypeVal = 24
    \/ (s.rtPlusOdaGroup > 0 /\ groupTypeVal = s.rtPlusOdaGroup)

\* line 869
IsRtPlusGroup(s, groupTypeVal) ==
    groupTypeVal = 24 \/ (s.rtPlusOdaGroup > 0 /\ groupTypeVal = s.rtPlusOdaGroup)

\* lines 554-961: the chain of else-if on groupTypeVal
Dispatch(m, g, env) ==
    LET groupTypeVal == Bits(g[2], 11, 5)
        s == m.state
    IN IF groupTypeVal = 0 \/ groupTypeVal = 1 THEN [m EXCEPT !.state = Group0(s, g, groupTypeVal = 0)]
       ELSE IF groupTypeVal = 16 THEN Group8A(m, g, env)
       ELSE IF groupTypeVal = 28 THEN [m EXCEPT !.state = Group14A(s, g, env.now)]
       ELSE IF groupTypeVal = 2 THEN [m EXCEPT !.state = Group1A(s, g)]
       ELSE IF groupTypeVal = 4 \/ groupTypeVal = 5 THEN [m EXCEPT !.state = Group2(s, g, groupTypeVal = 4)]
       ELSE IF groupTypeVal = 6 THEN [m EXCEPT !.state = Group3A(s, g)]
       ELSE IF IsRtPlusGroup(s, groupTypeVal) THEN [m EXCEPT !.state = GroupRtPlus(s, g, env.now)]
       ELSE IF groupTypeVal = 8 THEN [m EXCEPT !.state = Group4A(s, g)]
       ELSE IF groupTypeVal = 20 THEN [m EXCEPT !.state = Group10A(s, g)]
       ELSE IF groupTypeVal = 30 \/ groupTypeVal = 31 THEN [m EXCEPT !.state = Group15(s, g, groupTypeVal = 30)]
       ELSE m

\* lines 437-962. The memory m the handlers work on is
\*   state, ber, tmcId, line: decoderState, berHistory, tmcIdCounter, lineBuffer;
\*   reset: whether the last group ran the deep reset;
\*   mid: state and ber as they are after the PI block, before the payload is applied;
\*   probe, hist, conf: the history variables of the same names.
decodeRdsGroup(m, g, env) ==
    LET m0 == [m EXCEPT !.state.isDirty = TRUE]
        m1 == PiBlock(m0, g[1], env.now)
        m2 == [m1 EXCEPT !.mid = [state |-> m1.state, ber |-> m1.ber, now |-> env.now],
                         !.state = Common(m1.state, g, env)]
    IN Dispatch(m2, g, env)


----------------------------------------------------------------------------
(* BER window *)

\* lines 299-304
updateBer(ber, isError) ==
    LET p == Append(ber, IF isError THEN 1 ELSE 0)
    IN IF Len(p) > BER_WINDOW_SIZE THEN Tail(p) ELSE p

----------------------------------------------------------------------------
(* ws.onmessage: the frame ingester *)

WATCHDOG_LIMIT == 500
WATCHDOG_CUT == 250
LBRACE == 123
RBRACE == 125

\* \s of a JavaScript regular expression
IsSpace(c) == IsTrimmed(c)
\* [\s:,-]
IsSep(c) == IsSpace(c) \/ c = 58 \/ c = 44 \/ c = DASH
\* [0-9A-Fa-f]
IsHex(c) == (c >= 48 /\ c <= 57) \/ (c >= 65 /\ c <= 70) \/ (c >= 97 /\ c <= 102)
HexVal(c) == IF c <= 57 THEN c - 48 ELSE IF c <= 70 THEN c - 55 ELSE c - 87

RECURSIVE ParseRadix(_, _)
\* parseInt(block, 16) and the decimal number of a JSON text
ParseRadix(q, radix) ==
    IF q = <<>> THEN 0 ELSE ParseRadix(SubSeq(q, 1, Len(q) - 1), radix) * radix + HexVal(q[Len(q)])

\* s.indexOf(c, from), positions counted from 1, 0 when absent
IndexOf(q, c, from) ==
    LET hits == {i \in from..Len(q) : q[i] = c}
    IN IF hits = {} THEN 0 ELSE CHOOSE i \in hits : \A j \in hits : i <= j

IsDash(c) == c = DASH
IsDigit(c) == c >= 48 /\ c <= 57

\* membership of c in the character class cls of the pattern
InClass(c, cls) ==
    IF cls = "hex" THEN IsHex(c)
    ELSE IF cls = "dash" THEN IsDash(c)
    ELSE IF cls = "sep" THEN IsSep(c)
    ELSE IsDigit(c)

RECURSIVE RunLen(_, _, _)
\* the length of the longest run of characters of class cls that starts at q[p]
RunLen(q, p, cls) ==
    IF p <= Len(q) /\ InClass(q[p], cls) THEN 1 + RunLen(q, p + 1, cls) ELSE 0

\* ([0-9A-Fa-f]{4}|-{2,4}) at position p: the alternatives in the order the regular
\* expression tries them, each with the position after the token
TokenOpts(q, p) ==
    LET h == RunLen(q, p, "hex")
        d == RunLen(q, p, "dash")
    IN (IF h >= 4 THEN <<[end |-> p + 4, block |-> SubSeq(q, p, p + 3)]>> ELSE <<>>)
       \o (IF d >= 4 THEN <<[end |-> p + 4, block |-> SubSeq(q, p, p + 3)]>> ELSE <<>>)
       \o (IF d >= 3 THEN <<[end |-> p + 3, block |-> SubSeq(q, p, p + 2)]>> ELSE <<>>)
       \o (IF d >= 2 THEN <<[end |-> p + 2, block |-> SubSeq(q, p, p + 1)]>> ELSE <<>>)

NoMatch == [ok |-> FALSE, index |-> 0, end |-> 0, blocks |-> <<>>]

RECURSIVE MatchTokens(_, _, _), TryOpts(_, _, _, _), TrySeps(_, _, _, _)
\* k tokens, separated by greedy runs of [\s:,-], matched at position p
MatchTokens(q, p, k) == TryOpts(q, TokenOpts(q, p), k, 1)
TryOpts(q, opts, k, i) ==
    IF i > Len(opts) THEN NoMatch
    ELSE LET o == opts[i]
             r == IF k = 1 THEN [ok |-> TRUE, index |-> 0, end |-> o.end, blocks |-> <<>>]
                  ELSE TrySeps(q, o.end, k - 1, RunLen(q, o.end, "sep"))
         IN IF r.ok THEN [r EXCEPT !.blocks = <<o.block>> \o @]
            ELSE TryOpts(q, opts, k, i + 1)
TrySeps(q, p, k, n) ==
    LET r == MatchTokens(q, p + n, k)
    IN IF r.ok THEN r ELSE IF n = 0 THEN NoMatch ELSE TrySeps(q, p, k, n - 1)

\* the first position from p on where a token can start, 0 when there is none
NextStart(q, p) ==
    IF p <= Len(q) /\ (IsHex(q[p]) \/ IsDash(q[p])) THEN p
    ELSE LET starts == {i \in p..Len(q) : IsHex(q[i]) \/ IsDash(q[i])}
         IN IF starts = {} THEN 0 ELSE CHOOSE i \in starts : \A j \in starts : i <= j

RECURSIVE MatchFrom(_, _)
\* lineBuffer.match(hexPattern): the leftmost match from position p on; end is the
\* position after it. A match starts with a hexadecimal digit or a dash, so the
\* positions in between are passed over.
MatchFrom(q, p) ==
    LET start == NextStart(q, p)
    IN IF start = 0 THEN NoMatch
       ELSE LET r == MatchTokens(q, start, 4)
            IN IF r.ok THEN [r EXCEPT !.index = start] ELSE MatchFrom(q, start + 1)

hexPatternMatch(q) == MatchFrom(q, 1)

\* "g1": and so on
JsonKey(i) == <<34, 103, 48 + i, 34, 58>>

\* a JSON number without sign, fraction or exponent
IsJsonNumber(q) ==
    /\ q # <<>>
    /\ \A i \in 1..Len(q) : q[i] >= 48 /\ q[i] <= 57
    /\ (Len(q) > 1 => q[1] # 48)

RECURSIVE JsonFields(_, _)
\* the values of "g<i>":N,...,"g4":N} when q is that text, else <<>>
JsonFields(q, i) ==
    LET key == JsonKey(i)
        n == RunLen(q, Len(key) + 1, "digit")
        num == SubSeq(q, Len(key) + 1, Len(key) + n)
        after == SubSeq(q, Len(key) + n + 1, Len(q))
    IN IF Len(q) <= Len(key) \/ SubSeq(q, 1, Len(key)) # key \/ ~IsJsonNumber(num) THEN <<>>
       ELSE IF i = 4 THEN (IF after = <<RBRACE>> THEN <<ParseRadix(num, 10)>> ELSE <<>>)
       ELSE IF after # <<>> /\ Head(after) = 44
            THEN LET rest == JsonFields(Tail(after), i + 1)
                 IN IF rest = <<>> THEN <<>> ELSE <<ParseRadix(num, 10)>> \o rest
            ELSE <<>>

\* JSON.parse(jsonStr) followed by typeof json.g1 === 'number', for the records
\* the transport writes, {"g1":N,"g2":N,"g3":N,"g4":N}: the four numbers, or <<>>
\* (any other text between braces the model's transport can produce is no JSON)
ParseJsonGroup(jsonStr) ==
    IF jsonStr # <<>> /\ Head(jsonStr) = LBRACE THEN JsonFields(Tail(jsonStr), 1) ELSE <<>>

\* Graced with the success pushed during the grace period as well
GracedPushing(d) ==
    IF d.state.graceCounter = 0
    THEN [d EXCEPT !.ber = updateBer(d.ber, FALSE)]
    ELSE [d EXCEPT !.state.graceCounter = @ - 1, !.ber = updateBer(d.ber, FALSE)]

\* lines 1192-1196: a decoded group counts down the grace period or, after it, is a
\* success of the BER window
Graced(d) ==
    IF d.state.graceCounter = 0
    THEN [d EXCEPT !.ber = updateBer(d.ber, FALSE)]
    ELSE [d EXCEPT !.state.graceCounter = @ - 1]

\* the writers of the PS positions after group g: a group 0A or 0B writes the two
\* positions of its address (lines 571-575)
PsWriter(from, g) ==
    IF Bits(g[2], 11, 5) \in {0, 1}
    THEN [i \in 1..8 |-> IF i \in {Bits(g[2], 0, 2) * 2 + 1, Bits(g[2], 0, 2) * 2 + 2}
                         THEN Hex4(g[1]) ELSE from[i]]
    ELSE from

\* the dedup key of a stored message or of the user message in group g (lines 720-725)
TmcKeyOf(e) == <<e.locationCode, e.eventCode, e.direction, e.extent>>
TmcKeyIn(g) ==
    <<Bits(g[4], 0, 12), Bits(g[3], 0, 8) * 8 + Bits(g[4], 12, 3), Bit(g[3], 11), Bits(g[3], 8, 3)>>

\* group g is an 8A user message that the gate of line 672 lets through
IsTmcUser(g, env) ==
    Bits(g[2], 11, 5) = 16 /\ env.tmcActive /\ ~env.tmcPaused /\ ~Bit(g[2], 4)

\* the reception counts after group g, kept for the messages that are still stored
TmcSeenAfter(seen, g, env, buf) ==
    LET hit == {i \in 1..Len(seen) : seen[i].key = TmcKeyIn(g)}
        counted == IF ~IsTmcUser(g, env) THEN seen
                   ELSE IF hit = {} THEN Append(seen, [key |-> TmcKeyIn(g), n |-> 1])
                   ELSE [i \in 1..Len(seen) |->
                            IF i \in hit THEN [seen[i] EXCEPT !.n = @ + 1] ELSE seen[i]]
    IN SelectSeq(counted, LAMBDA c : \E i \in 1..Len(buf) : TmcKeyOf(buf[i]) = c.key)

\* lines 1048 and 1063: eonDataObj[key] = val and [...state.tmcBuffer] put the
\* decoder's own network and message objects into the snapshot
Handed(snap) == [eonData |-> snap.eonData, tmcMessages |-> snap.tmcMessages, shared |-> TRUE]

\* no snapshot was delivered yet
NoDelivered == [eonData |-> <<>>, tmcMessages |-> <<>>, shared |-> FALSE]

\* what the holder of the delivered objects reads once the decoder state is s: a
\* network is the decoder's object until eonMap.clear() (lines 373 and 470) drops it,
\* a message is the decoder's object while tmcBuffer holds it (its id is never reused,
\* line 734)
Held(h, s, cleared) ==
    [eonData |-> IF h.shared /\ ~cleared
                 THEN [i \in 1..Len(h.eonData) |-> MapGet(s.eonMap, h.eonData[i].key)]
                 ELSE h.eonData,
     tmcMessages |-> [i \in 1..Len(h.tmcMessages) |->
                        IF \E j \in 1..Len(s.tmcBuffer) : s.tmcBuffer[j].id = h.tmcMessages[i].id
                        THEN s.tmcBuffer[CHOOSE j \in 1..Len(s.tmcBuffer) :
                                            s.tmcBuffer[j].id = h.tmcMessages[i].id]
                        ELSE h.tmcMessages[i]],
     shared |-> h.shared /\ ~cleared]

\* the history variables after group g took the memory from m to d
Observed(m, g, d, env) ==
    [d EXCEPT !.probe = [kind |-> "group", g |-> g,
                         pre |-> [state |-> m.state, ber |-> m.ber],
                         reset |-> d.reset, mid |-> d.mid],
              !.hist = IF Len(@) >= PI_CONFIRM_COUNT
                       THEN Tail(@) \o <<Hex4(g[1])>> ELSE Append(@, Hex4(g[1])),
              !.conf = IF d.reset THEN d.state ELSE @,
              !.psFrom = PsWriter(IF d.reset THEN Fill(8, <<>>) ELSE @, g),
              !.okSince = IF d.reset THEN 1 ELSE @ + 1,
              !.tmcSeen = TmcSeenAfter(IF d.reset THEN <<>> ELSE @, g, env, d.state.tmcBuffer),
              !.delivered = Held(@, d.state, d.reset),
              !.log.decoded = Append(@, g)]

\* lines 1155-1161 and 1190-1196: a well-formed group
OnGroup(m, g, env) == Observed(m, g, Graced(decodeRdsGroup(m, g, env)), env)

\* OnCorrupted that also restarts the PI confirmation
OnCorruptedRestarting(m, env) ==
    LET pre == [state |-> m.state, ber |-> m.ber]
        s == m.state
        s1 == IF env.analyzerActive
              THEN [s EXCEPT !.groupTotal = s.groupTotal + 1,
                             !.groupSequence = PushSequence(s.groupSequence, "--"),
                             !.groupCounts = CountUp(s.groupCounts, "--")]
              ELSE s
    IN [m EXCEPT !.ber = updateBer(m.ber, TRUE),
                 !.state = [s1 EXCEPT !.isDirty = TRUE, !.piCounter = 0],
                 !.probe = [kind |-> "corrupted", g |-> <<>>, pre |-> pre,
                            reset |-> FALSE, mid |-> pre]]

\* OnCorrupted that does not mark the state dirty
OnCorruptedUnmarked(m, env) ==
    LET pre == [state |-> m.state, ber |-> m.ber]
        s == m.state
        s1 == IF env.analyzerActive
              THEN [s EXCEPT !.groupTotal = s.groupTotal + 1,
                             !.groupSequence = PushSequence(s.groupSequence, "--"),
                             !.groupCounts = CountUp(s.groupCounts, "--")]
              ELSE s
    IN [m EXCEPT !.ber = updateBer(m.ber, TRUE),
                 !.state = s1,
                 !.probe = [kind |-> "corrupted", g |-> <<>>, pre |-> pre,
                            reset |-> FALSE, mid |-> pre]]

\* lines 1171-1189
OnCorrupted(m, env) ==
    LET pre == [state |-> m.state, ber |-> m.ber]
        s == m.state
        s1 == IF env.analyzerActive
              THEN [s EXCEPT !.groupTotal = s.groupTotal + 1,
                             !.groupSequence = PushSequence(s.groupSequence, "--"),
                             !.groupCounts = CountUp(s.groupCounts, "--")]
              ELSE s
    IN [m EXCEPT !.ber = updateBer(m.ber, TRUE),
                 !.state = [s1 EXCEPT !.isDirty = TRUE],
                 !.probe = [kind |-> "corrupted", g |-> <<>>, pre |-> pre,
                            reset |-> FALSE, mid |-> pre]]

\* line 1169: blocks.some(b => b.includes('-'))
IsCorrupted(blocks) == \E i \in 1..Len(blocks) : DASH \in Range(blocks[i])

\* lines 1149-1167: the next frame of the buffer. A JSON object anywhere in the
\* buffer is taken first and the buffer is cut after its closing brace; otherwise
\* the first match of the hex pattern is taken and the buffer is cut after it.
NextFrame(line) ==
    LET jsonStart == IndexOf(line, LBRACE, 1)
        jsonEnd == IF jsonStart = 0 THEN IndexOf(line, RBRACE, 1)
                   ELSE IndexOf(line, RBRACE, jsonStart)
        isJson == jsonStart # 0 /\ jsonEnd # 0 /\ jsonEnd > jsonStart
        json == ParseJsonGroup(SubSeq(line, jsonStart, jsonEnd))
        match == hexPatternMatch(line)
    IN IF isJson
       THEN [kind |-> IF json # <<>> THEN "group" ELSE "skip", g |-> json,
             rest |-> SubSeq(line, jsonEnd + 1, Len(line))]
       ELSE IF match.ok
       THEN [kind |-> IF IsCorrupted(match.blocks) THEN "corrupted" ELSE "group",
             g |-> IF IsCorrupted(match.blocks) THEN <<>>
                   ELSE [i \in 1..4 |-> ParseRadix(match.blocks[i], 16)],
             rest |-> SubSeq(line, match.end, Len(line))]
       ELSE [kind |-> "none", g |-> <<>>, rest |-> line]

\* lines 1155-1161 and 1169-1197: the frame is handled
HandleFrame(m, f, env) ==
    IF f.kind = "group" THEN OnGroup(m, f.g, env)
    ELSE IF f.kind = "corrupted" THEN OnCorrupted(m, env)
    ELSE m

RECURSIVE ParseLoop(_, _)
\* lines 1148-1206: one turn of the loop with the next frame f, then the rest
ParseStep(m, f, env) ==
    IF f.kind = "none" THEN m
    ELSE ParseLoop([HandleFrame(m, f, env) EXCEPT !.line = f.rest], env)

\* lines 1148-1206
ParseLoop(m, env) == ParseStep(m, NextFrame(m.line), env)

\* line 1207
Watchdog(m) ==
    IF Len(m.line) > WATCHDOG_LIMIT
    THEN [m EXCEPT !.ber = IF m.state.graceCounter = 0 THEN updateBer(@, TRUE) ELSE @,
                   !.line = SubSeq(@, WATCHDOG_CUT + 1, Len(@)),
                   !.state.isDirty = TRUE,
                   !.probe = [kind |-> "watchdog", g |-> <<>>,
                              pre |-> [state |-> m.state, ber |-> m.ber],
                              reset |-> FALSE, mid |-> [state |-> m.state, ber |-> m.ber]]]
    ELSE m

\* lines 1138-1208
onmessage(m, chunk, env) ==
    Watchdog(ParseLoop([m EXCEPT !.line = m.line \o chunk], env))


----------------------------------------------------------------------------
(* The UI update loop: history loggers and the snapshot publisher *)

HISTORY_CAP == 200
PI_SETTLE_MS == 3000
PS_STABLE_MS == 1000
RT_STABLE_MS == 2000

Capped(q, cap) == IF Len(q) > cap THEN SubSeq(q, 1, cap) ELSE q

\* PsHistoryStep that logs a stable PS whatever the newest entry is
PsHistoryStepRepeating(s, t) ==
    LET currentPs == s.psBuffer
        s1 == IF currentPs # s.psCandidateString
              THEN [s EXCEPT !.psCandidateString = currentPs, !.psStableSince = t] ELSE s
        isStable == (t - s1.psStableSince) >= PS_STABLE_MS
        logIt == /\ s1.piEstablishmentTime > 0
                 /\ t - s1.piEstablishmentTime > PI_SETTLE_MS
                 /\ s1.currentPi # UNKNOWN_PI
                 /\ isStable
                 /\ Len(Trim(currentPs)) > 0
    IN IF logIt
       THEN [s1 EXCEPT !.psHistoryBuffer =
                           Capped(<<[time |-> TimeStr(t), pi |-> s1.currentPi,
                                     ps |-> currentPs, pty |-> s1.pty]>> \o @, HISTORY_CAP),
                       !.psHistoryLogged = TRUE]
       ELSE s1

\* lines 972-1001
PsHistoryStep(s, t) ==
    LET currentPs == s.psBuffer
        s1 == IF currentPs # s.psCandidateString
              THEN [s EXCEPT !.psCandidateString = currentPs, !.psStableSince = t] ELSE s
        isStable == (t - s1.psStableSince) >= PS_STABLE_MS
        logIt == /\ s1.piEstablishmentTime > 0
                 /\ t - s1.piEstablishmentTime > PI_SETTLE_MS
                 /\ s1.currentPi # UNKNOWN_PI
                 /\ isStable
                 /\ Len(Trim(currentPs)) > 0
                 /\ (s1.psHistoryBuffer = <<>> \/ s1.psHistoryBuffer[1].ps # currentPs)
    IN IF logIt
       THEN [s1 EXCEPT !.psHistoryBuffer =
                           Capped(<<[time |-> TimeStr(t), pi |-> s1.currentPi,
                                     ps |-> currentPs, pty |-> s1.pty]>> \o @, HISTORY_CAP),
                       !.psHistoryLogged = TRUE]
       ELSE s1

\* lines 1004-1016: the text up to the '\r' terminator and whether it is complete
RtCurrent(s) ==
    LET currentRtBuffer == IF s.abFlag THEN s.rtBuffer1 ELSE s.rtBuffer0
        currentRtMask == IF s.abFlag THEN s.rtMask1 ELSE s.rtMask0
        termIdx == IndexOf(currentRtBuffer, CR, 1)
    IN IF termIdx # 0
       THEN [complete |-> \A i \in 1..(termIdx - 1) : currentRtMask[i],
             text |-> SubSeq(currentRtBuffer, 1, termIdx - 1)]
       ELSE [complete |-> \A i \in 1..Len(currentRtMask) : currentRtMask[i],
             text |-> currentRtBuffer]

\* RtHistoryStep that does not ask whether the text is complete
RtHistoryStepIncomplete(s, t) ==
    LET cur == RtCurrent(s)
        s1 == IF cur.text # s.rtCandidateString
              THEN [s EXCEPT !.rtCandidateString = cur.text, !.rtStableSince = t] ELSE s
        logIt == /\ t - s1.rtStableSince >= RT_STABLE_MS
                 /\ (s1.rtHistoryBuffer = <<>> \/ s1.rtHistoryBuffer[1].text # cur.text)
                 /\ Len(Trim(cur.text)) > 0
    IN IF logIt
       THEN [s1 EXCEPT !.rtHistoryBuffer =
                           Capped(<<[time |-> TimeStr(t), text |-> cur.text]>> \o @, HISTORY_CAP)]
       ELSE s1

\* lines 1018-1039
RtHistoryStep(s, t) ==
    LET cur == RtCurrent(s)
        s1 == IF cur.text # s.rtCandidateString
              THEN [s EXCEPT !.rtCandidateString = cur.text, !.rtStableSince = t] ELSE s
        logIt == /\ t - s1.rtStableSince >= RT_STABLE_MS
                 /\ (s1.rtHistoryBuffer = <<>> \/ s1.rtHistoryBuffer[1].text # cur.text)
                 /\ Len(Trim(cur.text)) > 0
    IN IF ~cur.complete THEN s
       ELSE IF logIt
       THEN [s1 EXCEPT !.rtHistoryBuffer =
                           Capped(<<[time |-> TimeStr(t), text |-> cur.text]>> \o @, HISTORY_CAP)]
       ELSE s1

RECURSIVE SortByType(_)
\* rtPlusTags.values() sorted by contentType (the keys of a Map are distinct)
SortByType(tags) ==
    IF Len(tags) <= 1 THEN tags
    ELSE LET i == CHOOSE i \in 1..Len(tags) : \A j \in 1..Len(tags) : tags[i].contentType <= tags[j].contentType
         IN <<tags[i]>> \o SortByType(SubSeq(tags, 1, i - 1) \o SubSeq(tags, i + 1, Len(tags)))

RECURSIVE Sum(_)
Sum(q) == IF q = <<>> THEN 0 ELSE Head(q) + Sum(Tail(q))

\* PublishedBer without the grace test of line 1067
PublishedBerNoGrace(s, ber) ==
    IF Len(ber) = 0 THEN [num |-> 0, den |-> 1]
    ELSE [num |-> 100 * Sum(ber), den |-> Len(ber)]

\* line 1045 and line 1067: the percentage num/den
PublishedBer(s, ber) ==
    IF s.graceCounter > 0 \/ Len(ber) = 0 THEN [num |-> 0, den |-> 1]
    ELSE [num |-> 100 * Sum(ber), den |-> Len(ber)]

\* Snapshot that publishes the analyzer counters of the decoder whatever the switch
SnapshotLive(prev, s, ber, active) ==
    [ pi |-> s.currentPi, pty |-> s.pty, ptyn |-> s.ptynBuffer,
      tp |-> s.tp, ta |-> s.ta, ms |-> s.ms, stereo |-> s.diStereo,
      artificialHead |-> s.diArtificialHead, compressed |-> s.diCompressed,
      dynamicPty |-> s.diDynamicPty,
      ecc |-> s.ecc, lic |-> s.lic, pin |-> s.pin,
      localTime |-> s.localTime, utcTime |-> s.utcTime,
      textAbFlag |-> s.abFlag, rtPlus |-> SortByType(s.rtPlusTags),
      rtPlusItemRunning |-> s.rtPlusItemRunning, rtPlusItemToggle |-> s.rtPlusItemToggle,
      hasRtPlus |-> s.hasRtPlus, hasEon |-> s.hasEon, hasTmc |-> s.hasTmc,
      eonData |-> s.eonMap, tmcServiceInfo |-> s.tmcServiceInfo, tmcMessages |-> s.tmcBuffer,
      ps |-> s.psBuffer, longPs |-> s.lpsBuffer, rtA |-> s.rtBuffer0, rtB |-> s.rtBuffer1,
      af |-> s.afSet, afListHead |-> s.afListHead,
      afBLists |-> [i \in 1..Len(s.afBMap) |-> [key |-> s.afBMap[i].key, afs |-> s.afBMap[i].afs]],
      afType |-> s.afType,
      ber |-> PublishedBer(s, ber),
      groupCounts |-> s.groupCounts,
      groupTotal |-> s.groupTotal,
      groupSequence |-> s.groupSequence,
      recentGroups |-> s.rawGroupBuffer,
      psHistory |-> s.psHistoryBuffer, rtHistory |-> s.rtHistoryBuffer ]

\* lines 1041-1075: the value setRdsData stores, from the previous snapshot
Snapshot(prev, s, ber, active) ==
    [ pi |-> s.currentPi, pty |-> s.pty, ptyn |-> s.ptynBuffer,
      tp |-> s.tp, ta |-> s.ta, ms |-> s.ms, stereo |-> s.diStereo,
      artificialHead |-> s.diArtificialHead, compressed |-> s.diCompressed,
      dynamicPty |-> s.diDynamicPty,
      ecc |-> s.ecc, lic |-> s.lic, pin |-> s.pin,
      localTime |-> s.localTime, utcTime |-> s.utcTime,
      textAbFlag |-> s.abFlag, rtPlus |-> SortByType(s.rtPlusTags),
      rtPlusItemRunning |-> s.rtPlusItemRunning, rtPlusItemToggle |-> s.rtPlusItemToggle,
      hasRtPlus |-> s.hasRtPlus, hasEon |-> s.hasEon, hasTmc |-> s.hasTmc,
      eonData |-> s.eonMap, tmcServiceInfo |-> s.tmcServiceInfo, tmcMessages |-> s.tmcBuffer,
      ps |-> s.psBuffer, longPs |-> s.lpsBuffer, rtA |-> s.rtBuffer0, rtB |-> s.rtBuffer1,
      af |-> s.afSet, afListHead |-> s.afListHead,
      afBLists |-> [i \in 1..Len(s.afBMap) |-> [key |-> s.afBMap[i].key, afs |-> s.afBMap[i].afs]],
      afType |-> s.afType,
      ber |-> PublishedBer(s, ber),
      groupCounts |-> IF active THEN s.groupCounts ELSE prev.groupCounts,
      groupTotal |-> IF active THEN s.groupTotal ELSE prev.groupTotal,
      groupSequence |-> IF active THEN s.groupSequence ELSE prev.groupSequence,
      recentGroups |-> s.rawGroupBuffer,
      psHistory |-> s.psHistoryBuffer, rtHistory |-> s.rtHistoryBuffer ]

\* INITIAL_RDS_DATA: the snapshot of the initial decoder state
InitRdsData ==
    Snapshot([groupCounts |-> <<>>, groupTotal |-> 0, groupSequence |-> <<>>],
             InitState, <<>>, FALSE)

\* ResetDataState that keeps the PI candidate and its counter
ResetDataStateKeepingCandidate(s) ==
    [DeepResetState(s, 0) EXCEPT !.currentPi = UNKNOWN_PI, !.isDirty = TRUE]

\* lines 347-423: the station fields of decoderState
ResetDataState(s) ==
    [DeepResetState(s, 0) EXCEPT
        !.currentPi = UNKNOWN_PI, !.piCandidate = UNKNOWN_PI, !.piCounter = 0,
        !.isDirty = TRUE]

----------------------------------------------------------------------------
(* The TMC location resolver *)

BATCH_SIZE == 50
RATE_LIMIT_MS == 1100
QUERY_TIMEOUT_MS == 20000
MAX_RETRIES == 2
BACKOFF_MS == 2000
\* the number of entries of OVERPASS_ENDPOINTS
ENDPOINTS == 2
\* the time a fetch that is not aborted takes to settle
RESPONSE_MS == 100

\* the cache key "cid:tabcd:lcd" and the country key "cid:tabcd"
CacheKey(args, lcd) == <<args.cid, args.tabcd, lcd>>
CountryKey(args) == <<args.cid, args.tabcd>>

\* the OpenStreetMap data the remote endpoints answer from: nodes tagged with a
\* location code of a country (one of them without coordinates) and tmc:point
\* relations; country 25:1 is mapped partly in one way and partly in the other
NodeElements(args) ==
    IF CountryKey(args) = <<58, 1>>
    THEN {[lcd |-> 1, pos |-> TRUE, lat |-> 5250, lon |-> 1340, name |-> "Berlin"],
          [lcd |-> 2, pos |-> TRUE, lat |-> 4810, lon |-> 1160, name |-> ""],
          [lcd |-> 3, pos |-> FALSE, lat |-> 0, lon |-> 0, name |-> "Nowhere"]}
    ELSE IF CountryKey(args) = <<25, 1>>
    THEN {[lcd |-> 1, pos |-> TRUE, lat |-> 4190, lon |-> 1250, name |-> "Roma"]}
    ELSE {}

RelationElements(args) ==
    IF CountryKey(args) = <<9, 1>>
    THEN {[lcd |-> 1, pos |-> TRUE, lat |-> 4890, lon |-> 230, name |-> "Paris"]}
    ELSE IF CountryKey(args) = <<25, 1>>
    THEN {[lcd |-> 2, pos |-> TRUE, lat |-> 4550, lon |-> 920, name |-> "Milano"]}
    ELSE {}

\* the local file public/tmc/{cid}_{tabcd}.json: lcd -> [lat, lon, name, prev, next]
LocalFiles ==
    {[key |-> <<58, 1>>,
      data |-> {[lcd |-> 1, entry |-> [lat |-> 5250, lon |-> 1340, name |-> "Berlin",
                                       prev |-> 0, next |-> 2]],
                [lcd |-> 2, entry |-> [lat |-> 4810, lon |-> 1160, name |-> "",
                                       prev |-> 1, next |-> 0]]}]}

\* a location; an undefined name is "", an undefined neighbour NoNum
NotFoundLoc(lcd) ==
    [locationCode |-> lcd, lat |-> 0, lon |-> 0, name |-> "",
     prevLocationCode |-> NoNum, nextLocationCode |-> NoNum, status |-> "not_found"]

\* lines 114-130 and 151-165 of the service: the elements of a response that carry
\* coordinates, as locations
ParseElements(elements) ==
    {[lcd |-> el.lcd,
      loc |-> [locationCode |-> el.lcd, lat |-> el.lat, lon |-> el.lon, name |-> el.name,
               prevLocationCode |-> NoNum, nextLocationCode |-> NoNum,
               status |-> "resolved"]] : el \in {e \in elements : e.pos}}

\* queryNodeBatch and queryRelationBatch on a response that arrived: the elements
\* whose code matches ^(lcd1|lcd2|...)$
QueryResult(format, batch, args) ==
    ParseElements({el \in (IF format = "node" THEN NodeElements(args)
                           ELSE RelationElements(args)) : el.lcd \in Range(batch)})

\* App.tsx 1379-1397: the entries of the local file for the requested codes
LocalResult(data, lcds) ==
    {[lcd |-> d.lcd,
      loc |-> [locationCode |-> d.lcd, lat |-> d.entry.lat, lon |-> d.entry.lon,
               name |-> d.entry.name,
               prevLocationCode |-> IF d.entry.prev = 0 THEN NoNum ELSE d.entry.prev,
               nextLocationCode |-> IF d.entry.next = 0 THEN NoNum ELSE d.entry.next,
               status |-> "resolved"]] : d \in {e \in data : e.lcd \in Range(lcds)}}

\* a Map as a set of entries: get, has and set
Has(map, k) == \E e \in map : e.key = k
Get(map, k) == (CHOOSE e \in map : e.key = k).val
Put(map, k, v) == {e \in map : e.key # k} \cup {[key |-> k, val |-> v]}

\* results.set(lcd, loc) for every entry of found
SetAll(results, found) ==
    {e \in results : \A f \in found : f.lcd # e.lcd} \cup found

\* rateLimitWait (lines 35-41): the time at which its promise resolves
RateLimitAt(r) ==
    IF r.time - r.lastQueryTime < RATE_LIMIT_MS
    THEN r.time + (RATE_LIMIT_MS - (r.time - r.lastQueryTime))
    ELSE r.time

\* lines 236-240: batches of BATCH_SIZE codes
RECURSIVE Batches(_)
Batches(codes) ==
    IF Len(codes) = 0 THEN <<>>
    ELSE IF Len(codes) <= BATCH_SIZE THEN <<codes>>
    ELSE <<SubSeq(codes, 1, BATCH_SIZE)>> \o Batches(SubSeq(codes, BATCH_SIZE + 1, Len(codes)))

\* lines 223-232: the cached entries and the codes neither cached nor pending
CachedResults(r, args, lcds) ==
    {[lcd |-> l, loc |-> Get(r.locationCache, CacheKey(args, l))] :
        l \in {x \in Range(lcds) : Has(r.locationCache, CacheKey(args, x))}}

Unresolved(r, args, lcds) ==
    SelectSeq(lcds, LAMBDA l : /\ ~Has(r.locationCache, CacheKey(args, l))
                               /\ CacheKey(args, l) \notin r.pendingResolutions)

\* Date.now() when the module is loaded: milliseconds since 1970, far more than
\* RATE_LIMIT_MS after the initial lastQueryTime of 0
LOAD_TIME == 100000

\* the service before the first call
InitResolver ==
    [time |-> LOAD_TIME, locationCache |-> {}, pendingResolutions |-> {}, formatCache |-> {},
     lastQueryTime |-> 0, activeEndpoint |-> 0, localDataCache |-> {},
     localDataFailed |-> {}, calls |-> <<>>, requests |-> <<>>, localFetches |-> <<>>]

Waiting(c) == c.pc \in {"local", "rate", "backoff", "fetch", "rate2"}

\* the batch a call is working on
BatchOf(c) == c.batches[c.b]
KeysOf(c) == {CacheKey(c.args, BatchOf(c)[k]) : k \in 1..Len(BatchOf(c))}

\* lines 242-246: the codes of the next batch are marked pending and the call
\* waits for rateLimitWait
EnterBatch(r, i, b) ==
    LET c == [r.calls[i] EXCEPT !.b = b]
    IN [r EXCEPT !.pendingResolutions = @ \cup KeysOf(c),
                 !.calls[i] = [c EXCEPT !.pc = "rate", !.at = RateLimitAt(r),
                                        !.okSeen = FALSE]]

\* lines 236-243: the misses are split into batches and the first batch is entered
Remote(r, i, codes) ==
    EnterBatch([r EXCEPT !.calls[i].batches = Batches(codes)], i, 1)

\* lines 46-52 and 55-57: an attempt starts; it picks its endpoint, arms the abort
\* timer and, on a retry, sleeps before it fetches; first remembers activeEndpoint
\* as it was at the first attempt of the query
Attempt(r, i, attempt) ==
    [r EXCEPT !.calls[i] =
        [@ EXCEPT !.attempt = attempt,
                  !.endpoint = (r.activeEndpoint + attempt) % ENDPOINTS,
                  !.first = IF attempt = 0 THEN r.activeEndpoint ELSE @,
                  !.deadline = r.time + QUERY_TIMEOUT_MS,
                  !.pc = "backoff", !.at = r.time + BACKOFF_MS * attempt]]

\* lines 59-64: the request departs; it settles with outcome o, an aborted one when
\* the abort timer fires
Fetch(r, i, o) ==
    [r EXCEPT !.requests = Append(@, [at |-> r.time, call |-> i, b |-> r.calls[i].b,
                                      endpoint |-> r.calls[i].endpoint, outcome |-> o]),
              !.calls[i] = [@ EXCEPT !.pc = "fetch", !.outcome = o, !.ios = @ + 1,
                                     !.at = IF o = "timeout" THEN r.calls[i].deadline
                                            ELSE r.time + RESPONSE_MS]]

\* lines 177-189 and 200-202: a strategy starts with its first attempt, which
\* fetches at once
Strategy(r, i, stage, format, o) ==
    Fetch(Attempt([r EXCEPT !.calls[i].stage = stage, !.calls[i].format = format], i, 0), i, o)

\* a batch end that caches the locations found only
FinishBatchForgetting(r, i, found) ==
    LET c == r.calls[i]
        cache1 == {e \in r.locationCache : \A f \in found : e.key # CacheKey(c.args, f.lcd)}
                  \cup {[key |-> CacheKey(c.args, f.lcd), val |-> f.loc] : f \in found}
        r1 == [r EXCEPT !.locationCache = cache1,
                        !.pendingResolutions = @ \ KeysOf(c),
                        !.calls[i].results = SetAll(@, found),
                        !.calls[i].found = {f.lcd : f \in found},
                        !.calls[i].ended = @ + 1]
    IN IF c.b < Len(c.batches) THEN EnterBatch(r1, i, c.b + 1)
       ELSE [r1 EXCEPT !.calls[i].pc = "returned"]

\* lines 249-263 and 273-274: the batch is done with the locations found; they are
\* cached and returned, the other codes of the batch are cached as not found, and
\* the call goes on with the next batch or returns
FinishBatch(r, i, found) ==
    LET c == r.calls[i]
        batch == BatchOf(c)
        missed == {batch[k] : k \in {k \in 1..Len(batch) : \A f \in found : f.lcd # batch[k]}}
        cache1 == {e \in r.locationCache : \A f \in found : e.key # CacheKey(c.args, f.lcd)}
                  \cup {[key |-> CacheKey(c.args, f.lcd), val |-> f.loc] : f \in found}
        cache2 == {e \in cache1 : \A l \in missed : e.key # CacheKey(c.args, l)}
                  \cup {[key |-> CacheKey(c.args, l), val |-> NotFoundLoc(l)] : l \in missed}
        r1 == [r EXCEPT !.locationCache = cache2,
                        !.pendingResolutions =
                            (@ \ {CacheKey(c.args, f.lcd) : f \in found}) \ KeysOf(c),
                        !.calls[i].results = SetAll(@, found),
                        !.calls[i].found = {f.lcd : f \in found},
                        !.calls[i].ended = @ + 1]
    IN IF c.b < Len(c.batches) THEN EnterBatch(r1, i, c.b + 1)
       ELSE [r1 EXCEPT !.calls[i].pc = "returned"]

\* a catch block that throws again without removing the pending marks
RethrowKeeping(r, i) ==
    [r EXCEPT !.calls[i].pc = "raised", !.calls[i].found = {}, !.calls[i].ended = @ + 1]

\* lines 264-271: the pending marks of the batch are removed and the error is
\* thrown again
Rethrow(r, i) ==
    [r EXCEPT !.pendingResolutions = @ \ KeysOf(r.calls[i]), !.calls[i].pc = "raised",
              !.calls[i].found = {}, !.calls[i].ended = @ + 1]

\* lines 190-198 and 203-212: a strategy of the detection ended with the locations
\* found, or failed (failed = TRUE)
Detected(r, i, found, failed) ==
    LET c == r.calls[i]
    IN IF ~failed /\ found # {}
       THEN FinishBatch([r EXCEPT !.formatCache = Put(@, CountryKey(c.args), c.format)],
                        i, found)
       ELSE IF c.stage = "node"
       THEN [r EXCEPT !.calls[i].pc = "rate2", !.calls[i].at = RateLimitAt(r)]
       ELSE FinishBatch(r, i, {})

\* lines 95 and 89: queryOverpass throws
Thrown(r, i) ==
    IF r.calls[i].stage = "known" THEN Rethrow(r, i) ELSE Detected(r, i, {}, TRUE)

\* lines 66-92: the fetch of call i settles
Settled(r, i) ==
    LET c == r.calls[i]
    IN IF c.outcome = "ok"
       THEN LET r1 == [r EXCEPT !.lastQueryTime = r.time, !.activeEndpoint = c.endpoint,
                                !.calls[i].okSeen = TRUE]
                found == QueryResult(c.format, BatchOf(c), c.args)
            IN IF c.stage = "known" THEN FinishBatch(r1, i, found)
               ELSE Detected(r1, i, found, FALSE)
       ELSE IF c.attempt < MAX_RETRIES THEN Attempt(r, i, c.attempt + 1)
       ELSE Thrown(r, i)

\* lines 176-189: rateLimitWait is over and queryBatchAutoDetect starts
Detect(r, i, o) ==
    LET k == CountryKey(r.calls[i].args)
    IN IF Has(r.formatCache, k) THEN Strategy(r, i, "known", Get(r.formatCache, k), o)
       ELSE Strategy(r, i, "node", "node", o)

\* a call of resolveLocations before its first step
NewCall(args, local) ==
    [args |-> args, local |-> local, pc |-> "new", at |-> 0, results |-> {},
     batches |-> <<>>, b |-> 0, stage |-> "none", format |-> "none", attempt |-> 0,
     endpoint |-> 0, outcome |-> "none", deadline |-> 0, ios |-> 0,
     codes |-> <<>>, started |-> 0, okSeen |-> FALSE, found |-> {}, ended |-> 0,
     first |-> 0]

\* a lookup that does not consult localDataFailed
LookupLocalRetrying(r, i, o) ==
    LET k == CountryKey(r.calls[i].args)
    IN IF Has(r.localDataCache, k)
       THEN [r EXCEPT !.calls[i].pc = "local", !.calls[i].outcome = "cached",
                      !.calls[i].at = r.time]
       ELSE [r EXCEPT !.calls[i].pc = "local", !.calls[i].ios = 1,
                      !.calls[i].outcome =
                          IF o = "ok" /\ \E f \in LocalFiles : f.key = k
                          THEN "loaded" ELSE "absent",
                      !.calls[i].at = r.time + RESPONSE_MS,
                      !.localFetches = Append(@, [at |-> r.time, call |-> i, key |-> k])]

\* App.tsx 1358-1366: lookupLocal up to its first await. A country known to have
\* no file and a file already loaded need no fetch; otherwise the file is
\* fetched, and the fetch succeeds when o is "ok" and the file exists
LookupLocal(r, i, o) ==
    LET k == CountryKey(r.calls[i].args)
    IN IF k \in r.localDataFailed
       THEN [r EXCEPT !.calls[i].pc = "local", !.calls[i].outcome = "failed",
                      !.calls[i].at = r.time]
       ELSE IF Has(r.localDataCache, k)
       THEN [r EXCEPT !.calls[i].pc = "local", !.calls[i].outcome = "cached",
                      !.calls[i].at = r.time]
       ELSE [r EXCEPT !.calls[i].pc = "local", !.calls[i].ios = 1,
                      !.calls[i].outcome =
                          IF o = "ok" /\ \E f \in LocalFiles : f.key = k
                          THEN "loaded" ELSE "absent",
                      !.calls[i].at = r.time + RESPONSE_MS,
                      !.localFetches = Append(@, [at |-> r.time, call |-> i, key |-> k])]

\* App.tsx 1367-1377: the fetch of the file has settled; the data are kept, or the
\* country is remembered as having no file
Loaded(r, i) ==
    LET c == r.calls[i]
        k == CountryKey(c.args)
    IN IF c.outcome = "loaded"
       THEN [r EXCEPT !.localDataCache =
                          Put(@, k, (CHOOSE f \in LocalFiles : f.key = k).data)]
       ELSE IF c.outcome = "absent"
       THEN [r EXCEPT !.localDataFailed = @ \cup {k}]
       ELSE r

\* lines 215-246: resolveLocations up to its first await. With local, the lookup
\* in the local file comes before the remote batches
Called(r, args, local, o) ==
    LET i == Len(r.calls) + 1
        codes == Unresolved(r, args, args.lcds)
        c == [NewCall(args, local) EXCEPT !.results = CachedResults(r, args, args.lcds),
                                          !.codes = codes, !.started = r.time]
        r1 == [r EXCEPT !.calls = Append(@, c)]
    IN IF codes = <<>> THEN [r1 EXCEPT !.calls[i].pc = "returned"]
       ELSE IF ~local THEN Remote(r1, i, codes)
       ELSE LookupLocal(r1, i, o)

\* the use resolveLocations makes of the result of lookupLocal: the hits are
\* returned as resolved and the misses as not found, both are cached, and the call
\* returns; without a file the call goes on with the remote batches
Looked(r, i) ==
    LET c == r.calls[i]
        k == CountryKey(c.args)
        r1 == Loaded(r, i)
    IN IF c.outcome \in {"absent", "failed"} THEN Remote(r1, i, c.codes)
       ELSE LET found == LocalResult(Get(r1.localDataCache, k), c.codes)
                missed == {l \in Range(c.codes) : \A f \in found : f.lcd # l}
                all == found \cup {[lcd |-> l, loc |-> NotFoundLoc(l)] : l \in missed}
            IN [r1 EXCEPT !.locationCache =
                              {e \in @ : \A f \in all : e.key # CacheKey(c.args, f.lcd)}
                              \cup {[key |-> CacheKey(c.args, f.lcd), val |-> f.loc] : f \in all},
                          !.calls[i].results = SetAll(@, all),
                          !.calls[i].pc = "returned"]

\* the continuation of call i at its await
Resumed(r, i, o) ==
    LET c == r.calls[i]
    IN IF c.pc = "local" THEN Looked(r, i)
       ELSE IF c.pc = "rate" THEN Detect(r, i, o)
       ELSE IF c.pc = "rate2" THEN Strategy(r, i, "relation", "relation", o)
       ELSE IF c.pc = "backoff" THEN Fetch(r, i, o)
       ELSE Settled(r, i)

----------------------------------------------------------------------------
(* History variables *)

NoProbe ==
    [kind |-> "none", g |-> <<>>, pre |-> [state |-> InitState, ber |-> <<>>],
     reset |-> FALSE, mid |-> [state |-> InitState, ber |-> <<>>, now |-> 0]]

NoPub ==
    [seen |-> FALSE, prevPi |-> UNKNOWN_PI, prev |-> InitRdsData, psFrom |-> Fill(8, <<>>),
     grace |-> GRACE_PERIOD_PACKETS, ber |-> <<>>, active |-> FALSE]

----------------------------------------------------------------------------
(* Initial state *)

Init ==
    /\ state = InitState
    /\ berHistory = <<>>
    /\ lineBuffer = <<>>
    /\ tmcIdCounter = 0
    /\ analyzerActive = FALSE
    /\ tmcActive = FALSE
    /\ tmcPaused = FALSE
    /\ rdsData = InitRdsData
    /\ now = StartTime
    /\ wire = <<>>
    /\ probe = NoProbe
    /\ hist = <<>>
    /\ sent = <<>>
    /\ pub = NoPub
    /\ conf = InitState
    /\ psFrom = Fill(8, <<>>)
    /\ okSince = 0
    /\ tmcSeen = <<>>
    /\ delivered = NoDelivered
    /\ log = [decoded |-> <<>>, shown |-> <<>>]
    /\ resolver = InitResolver
    /\ nFrames = 0
    /\ nTicks = 0

----------------------------------------------------------------------------
(* Actions *)

Env == [now |-> now, analyzerActive |-> analyzerActive,
        tmcActive |-> tmcActive, tmcPaused |-> tmcPaused]

Mem == [state |-> state, ber |-> berHistory, tmcId |-> tmcIdCounter, line |-> lineBuffer,
        reset |-> FALSE, mid |-> NoProbe.mid, probe |-> probe, hist |-> hist, conf |-> conf,
        psFrom |-> psFrom, okSince |-> okSince, tmcSeen |-> tmcSeen,
        delivered |-> delivered, log |-> log]

\* ws.onmessage with the chunk: the whole handler
Commit(m) ==
    /\ state' = m.state
    /\ berHistory' = m.ber
    /\ tmcIdCounter' = m.tmcId
    /\ lineBuffer' = m.line
    /\ probe' = m.probe
    /\ hist' = m.hist
    /\ conf' = m.conf
    /\ psFrom' = m.psFrom
    /\ okSince' = m.okSince
    /\ tmcSeen' = m.tmcSeen
    /\ delivered' = m.delivered
    /\ log' = m.log
    /\ UNCHANGED <<analyzerActive, tmcActive, tmcPaused, rdsData, now, pub, nTicks, resolver>>

Receive(chunk) == Commit(onmessage(Mem, chunk, Env))

\* the text of a hex-tuple frame, of a frame with an uncorrectable block and of a
\* JSON record
HexFrame(g) == Hex4(g[1]) \o <<SP>> \o Hex4(g[2]) \o <<SP>> \o Hex4(g[3]) \o <<SP>> \o Hex4(g[4]) \o <<10>>
DashFrame(g) == Hex4(g[1]) \o <<SP>> \o UNKNOWN_PI \o <<SP>> \o Hex4(g[3]) \o <<SP>> \o Hex4(g[4]) \o <<10>>
JsonFrame(g) ==
    <<LBRACE>> \o JsonKey(1) \o DecStr(g[1]) \o <<44>> \o JsonKey(2) \o DecStr(g[2]) \o <<44>>
    \o JsonKey(3) \o DecStr(g[3]) \o <<44>> \o JsonKey(4) \o DecStr(g[4]) \o <<RBRACE>>

\* a frame f = [kind, g] arrives in a chunk of its own
FrameText(f) ==
    IF f.kind = "hex" THEN HexFrame(f.g)
    ELSE IF f.kind = "json" THEN JsonFrame(f.g) ELSE DashFrame(f.g)

Frame(f) ==
    /\ nFrames' = nFrames + 1
    /\ Receive(FrameText(f))
    /\ UNCHANGED <<wire, sent>>

\* the blocks of a list of raw groups (line 534)
BlocksOf(q) == [i \in 1..Len(q) |-> q[i].blocks]

\* Publish that leaves the backlog of raw groups in place
PublishKeeping(s1) ==
    /\ rdsData' = Snapshot(rdsData, s1, berHistory, analyzerActive)
    /\ state' = [s1 EXCEPT !.isDirty = FALSE]

\* lines 1041-1081: the snapshot is stored and the backlog and the dirty mark are cleared
Publish(s1) ==
    /\ rdsData' = Snapshot(rdsData, s1, berHistory, analyzerActive)
    /\ state' = [s1 EXCEPT !.rawGroupBuffer = <<>>, !.isDirty = FALSE]

\* a turn of the loop whose PS logger reads a clock that is three seconds fast
TickUnsettled ==
    /\ state.isDirty \/ state.rawGroupBuffer # <<>>
    /\ Publish(RtHistoryStep(PsHistoryStep(state, now + 3000), now))
    /\ delivered' = Handed(rdsData')
    /\ log' = [log EXCEPT !.shown = @ \o BlocksOf(rdsData'.recentGroups)]
    /\ pub' = [seen |-> TRUE, prevPi |-> rdsData.pi, prev |-> rdsData, psFrom |-> psFrom,
               grace |-> state.graceCounter, ber |-> berHistory, active |-> analyzerActive]
    /\ probe' = NoProbe
    /\ nTicks' = nTicks + 1
    /\ UNCHANGED <<berHistory, lineBuffer, tmcIdCounter, analyzerActive, tmcActive, tmcPaused,
                   now, wire, hist, sent, conf, psFrom, okSince, tmcSeen, nFrames,
                   resolver>>

\* one turn of the UI update loop that finds something to publish (lines 967-1078)
Tick ==
    /\ state.isDirty \/ state.rawGroupBuffer # <<>>
    /\ Publish(RtHistoryStep(PsHistoryStep(state, now), now))
    /\ delivered' = Handed(rdsData')
    /\ log' = [log EXCEPT !.shown = @ \o BlocksOf(rdsData'.recentGroups)]
    /\ pub' = [seen |-> TRUE, prevPi |-> rdsData.pi, prev |-> rdsData, psFrom |-> psFrom,
               grace |-> state.graceCounter, ber |-> berHistory, active |-> analyzerActive]
    /\ probe' = NoProbe
    /\ nTicks' = nTicks + 1
    /\ UNCHANGED <<berHistory, lineBuffer, tmcIdCounter, analyzerActive, tmcActive, tmcPaused,
                   now, wire, hist, sent, conf, psFrom, okSince, tmcSeen, nFrames,
                   resolver>>

\* lines 347-423
resetData ==
    /\ state' = ResetDataState(state)
    /\ berHistory' = Fill(BER_WINDOW_SIZE, 0)
    /\ probe' = NoProbe
    /\ conf' = state'
    /\ psFrom' = Fill(8, <<>>)
    /\ okSince' = 0
    /\ tmcSeen' = <<>>
    /\ delivered' = Held(delivered, state', TRUE)
    /\ UNCHANGED <<log, resolver>>
    /\ UNCHANGED <<lineBuffer, tmcIdCounter, analyzerActive, tmcActive, tmcPaused, rdsData,
                   now, wire, hist, sent, pub, nFrames, nTicks>>

\* line 1135: the socket opens
onopen ==
    /\ state' = [state EXCEPT !.graceCounter = GRACE_PERIOD_PACKETS]
    /\ lineBuffer' = <<>>
    /\ okSince' = 0
    /\ probe' = NoProbe
    /\ UNCHANGED <<berHistory, tmcIdCounter, analyzerActive, tmcActive, tmcPaused, rdsData,
                   now, wire, hist, sent, pub, conf, psFrom, tmcSeen, nFrames, nTicks, delivered, log,
                   resolver>>

\* lines 314-319
resetAnalyzer ==
    /\ state' = [state EXCEPT !.groupCounts = <<>>, !.groupTotal = 0, !.groupSequence = <<>>,
                              !.isDirty = TRUE]
    /\ probe' = NoProbe
    /\ UNCHANGED <<berHistory, lineBuffer, tmcIdCounter, analyzerActive, tmcActive, tmcPaused,
                   rdsData, now, wire, hist, sent, pub, conf, psFrom, okSince, tmcSeen,
                   nFrames, nTicks, delivered, log,
                   resolver>>

\* lines 321-332: stopping TMC also clears the pause
toggleTmc ==
    /\ tmcActive' = ~tmcActive
    /\ tmcPaused' = IF tmcActive THEN FALSE ELSE tmcPaused
    /\ probe' = NoProbe
    /\ UNCHANGED <<state, berHistory, lineBuffer, tmcIdCounter, analyzerActive, rdsData, now,
                   wire, hist, sent, pub, conf, psFrom, okSince, tmcSeen, nFrames,
                   nTicks, delivered, log,
                   resolver>>

\* lines 334-340
toggleTmcPause ==
    /\ tmcPaused' = ~tmcPaused
    /\ probe' = NoProbe
    /\ UNCHANGED <<state, berHistory, lineBuffer, tmcIdCounter, analyzerActive, tmcActive,
                   rdsData, now, wire, hist, sent, pub, conf, psFrom, okSince, tmcSeen,
                   nFrames, nTicks, delivered, log,
                   resolver>>

\* lines 342-345
resetTmc ==
    /\ state' = [state EXCEPT !.tmcBuffer = <<>>, !.isDirty = TRUE]
    /\ tmcSeen' = <<>>
    /\ probe' = NoProbe
    /\ UNCHANGED <<berHistory, lineBuffer, tmcIdCounter, analyzerActive, tmcActive, tmcPaused,
                   rdsData, now, wire, hist, sent, pub, conf, psFrom, okSince, nFrames,
                   nTicks, delivered, log,
                   resolver>>

\* lines 306-312
toggleAnalyzer ==
    /\ analyzerActive' = ~analyzerActive
    /\ UNCHANGED <<state, berHistory, lineBuffer, tmcIdCounter, tmcActive, tmcPaused, rdsData,
                   now, wire, probe, hist, sent, pub, conf, psFrom, okSince, tmcSeen, nFrames,
                   nTicks, delivered, log,
                   resolver>>

\* Date.now() moves in steps of four seconds
ClockStep == 4000

Wait ==
    /\ now' = now + ClockStep
    /\ UNCHANGED <<state, berHistory, lineBuffer, tmcIdCounter, analyzerActive, tmcActive,
                   tmcPaused, rdsData, wire, probe, hist, sent, pub, conf, psFrom, okSince, tmcSeen,
                   nFrames, nTicks, delivered, log,
                   resolver>>

\* the clock moves at most MaxClock times
Advance == now < StartTime + MaxClock * ClockStep /\ Wait

----------------------------------------------------------------------------
(* Inputs *)

\* B2 of a group: type and version, TP, PTY and the five low bits
B2(groupTypeVal, tp, pty, low) == groupTypeVal * 2048 + tp * 1024 + pty * 32 + low

PI_A == 54040 \* 0xD318
PI_B == 61954 \* 0xF202

\* 0A groups carrying two PS characters at address a
PsGroup(pi, a, c1, c2) == <<pi, B2(0, 0, 10, a), 57549, c1 * 256 + c2>>

----------------------------------------------------------------------------
(* PI confirmation: two stations sending PS groups, the publisher and the   *)
(* manual reset                                                             *)

\* frames and publisher ticks of one behaviour
MaxFramesPI == 5
MaxTicksPI == 1

FramesPI ==
    {[kind |-> "hex", g |-> PsGroup(PI_A, 0, 66, 70)],
     [kind |-> "hex", g |-> PsGroup(PI_B, 1, 67, 75)]}

NextPI ==
    \/ \E f \in FramesPI : nFrames < MaxFramesPI /\ Frame(f)
    \/ nTicks < MaxTicksPI /\ Tick
    \/ resetData

SpecPI == Init /\ [][NextPI]_vars

\* the last PI_CONFIRM_COUNT decoded groups all carried the PI of the last one
RunOfFour == /\ Len(hist) = PI_CONFIRM_COUNT
             /\ \A i \in 1..Len(hist) : hist[i] = Hex4(probe.g[1])

\* C1: after a group that completes a run of at least four consecutive groups with
\* one PI, or that arrives while the confirmed pi is "----", the confirmed pi is the
\* PI of that group.
C1_PiConfirmed ==
    (probe.kind = "group" /\ (RunOfFour \/ probe.pre.state.currentPi = UNKNOWN_PI))
        => state.currentPi = Hex4(probe.g[1])

C1_Witness ==
    /\ probe.kind = "group" /\ RunOfFour
    /\ probe.pre.state.currentPi \notin {UNKNOWN_PI, Hex4(probe.g[1])}
    /\ state.currentPi = Hex4(probe.g[1])

\* C2: a group that arrives while a pi is confirmed changes the confirmed pi, and runs
\* the deep reset, only if it is the fourth group of a run with another PI; a group
\* that ends a run of one to three leaves the pi unchanged and runs no deep reset.
C2_PiStable ==
    (probe.kind = "group" /\ probe.pre.state.currentPi # UNKNOWN_PI)
        => /\ (state.currentPi # probe.pre.state.currentPi \/ probe.reset)
                => (RunOfFour /\ state.currentPi = Hex4(probe.g[1])
                    /\ Hex4(probe.g[1]) # probe.pre.state.currentPi)
           /\ ~RunOfFour => (state.currentPi = probe.pre.state.currentPi /\ ~probe.reset)

C2_Witness ==
    /\ probe.kind = "group" /\ ~RunOfFour
    /\ Len(hist) = PI_CONFIRM_COUNT /\ hist[2] = hist[3] /\ hist[3] = hist[4]
    /\ hist[4] # probe.pre.state.currentPi
    /\ probe.pre.state.currentPi # UNKNOWN_PI
    /\ state.currentPi = probe.pre.state.currentPi

----------------------------------------------------------------------------
(* A station change seen through the publisher: the same two stations, no     *)
(* manual reset                                                              *)

MaxFramesSwitch == 6
MaxTicksSwitch == 2

NextSwitch ==
    \/ \E f \in FramesPI : nFrames < MaxFramesSwitch /\ Frame(f)
    \/ nTicks < MaxTicksSwitch /\ Tick

SpecSwitch == Init /\ [][NextSwitch]_vars

\* C3: in the snapshot of the last tick every PS position that was written was written
\* by a group whose PI is the snapshot's pi.
C3_NoMixing ==
    pub.seen => \A i \in 1..8 : pub.psFrom[i] \in {<<>>, rdsData.pi}

\* the per-station fields of a snapshot that the deep reset clears
StationView(snap) ==
    [pi |-> snap.pi, ps |-> snap.ps, longPs |-> snap.longPs, ptyn |-> snap.ptyn,
     rtA |-> snap.rtA, rtB |-> snap.rtB, textAbFlag |-> snap.textAbFlag,
     af |-> snap.af, afListHead |-> snap.afListHead, afBLists |-> snap.afBLists,
     afType |-> snap.afType, pty |-> snap.pty, tp |-> snap.tp, ta |-> snap.ta,
     ms |-> snap.ms, stereo |-> snap.stereo, artificialHead |-> snap.artificialHead,
     compressed |-> snap.compressed, dynamicPty |-> snap.dynamicPty,
     ecc |-> snap.ecc, lic |-> snap.lic, pin |-> snap.pin,
     localTime |-> snap.localTime, utcTime |-> snap.utcTime, rtPlus |-> snap.rtPlus,
     eonData |-> snap.eonData, tmcServiceInfo |-> snap.tmcServiceInfo,
     tmcMessages |-> snap.tmcMessages]

\* C4: when the last two snapshots differ in pi, the per-station fields of the later one
\* are those the decoder held right after the group that confirmed the new pi (the
\* initial values and what that one group wrote).
C4_ResetAtomic ==
    (pub.seen /\ pub.prevPi # rdsData.pi /\ pub.prevPi # UNKNOWN_PI)
        => StationView(rdsData) = StationView(Snapshot(pub.prev, conf, berHistory, FALSE))

----------------------------------------------------------------------------
(* Deep reset: a station that has populated every kind of field is replaced  *)
(* by another one. The analyzer is switched before the stream starts.        *)

MaxChunksReset == 3
MaxTicksReset == 2

\* groups of station PI_A: PS with an AF list header, PS with an AF pair, RadioText
\* "HI\r " in buffer B, ECC and PIN, the RT+ ODA binding, an RT+ tag, an EON
\* network, the clock, PTYN and Long PS
StationGroups ==
    << <<PI_A, B2(0, 1, 10, 24), 226 * 256 + 100, 66 * 256 + 70>>,
       <<PI_A, B2(0, 1, 10, 25), 100 * 256 + 110, 67 * 256 + 75>>,
       <<PI_A, B2(4, 1, 10, 16), 72 * 256 + 73, 13 * 256 + 32>>,
       <<PI_A, B2(2, 1, 10, 0), 224, 2048 + 128 + 3>>,
       <<PI_A, B2(6, 1, 10, 22), 0, RTPLUS_AID>>,
       <<PI_A, B2(24, 1, 10, 24), 8192 + 2, 0>>,
       <<PI_A, B2(28, 1, 10, 0), 88 * 256 + 89, 4660>>,
       <<PI_A, B2(8, 1, 10, 1), 54464, 51074>>,
       <<PI_A, B2(20, 1, 10, 0), 74 * 256 + 65, 90 * 256 + 90>>,
       <<PI_A, B2(30, 1, 10, 0), 76 * 256 + 79, 78 * 256 + 71>> >>

RECURSIVE Lines(_)
\* the text of a chunk that carries the groups gs as hex frames
Lines(gs) == IF gs = <<>> THEN <<>> ELSE HexFrame(Head(gs)) \o Lines(Tail(gs))

ChunksReset ==
    {Lines(StationGroups), Lines([i \in 1..PI_CONFIRM_COUNT |-> PsGroup(PI_B, 1, 67, 75)])}

Chunk(c) ==
    /\ nFrames' = nFrames + 1
    /\ Receive(c)
    /\ UNCHANGED <<wire, sent>>

NextReset ==
    \/ \E c \in ChunksReset : nFrames < MaxChunksReset /\ Chunk(c)
    \/ nTicks < MaxTicksReset /\ Tick
    \/ Advance
    \/ nFrames = 0 /\ toggleAnalyzer

SpecReset == Init /\ [][NextReset]_vars

\* a decoder state with the PI tracking, the dirty flag, the raw group backlog and
\* the establishment time put back to their initial values
StationOf(s) ==
    [s EXCEPT !.currentPi = UNKNOWN_PI, !.piCandidate = UNKNOWN_PI, !.piCounter = 0,
              !.isDirty = FALSE, !.rawGroupBuffer = <<>>, !.piEstablishmentTime = 0]

\* the deep reset ran for the last group and left every per-station field initial
\* before the payload was applied, with the establishment time set to the clock
ResetCleared ==
    /\ StationOf(probe.mid.state) = InitState
    /\ probe.mid.state.currentPi = Hex4(probe.g[1])
    /\ probe.mid.state.piEstablishmentTime = probe.mid.now

\* C5 (as stated): after the PI block of a group that confirms another PI, every
\* per-station field, the BER window included, has its initial value and the
\* establishment time is the current time.
C5_ResetToInitial ==
    (probe.kind = "group" /\ probe.reset) => (ResetCleared /\ probe.mid.ber = <<>>)

\* C5 (amended): as above, except that the BER window is not made empty, as it is
\* initially, but filled with BER_WINDOW_SIZE successes.
C5_ResetToInitialButBer ==
    (probe.kind = "group" /\ probe.reset)
        => (ResetCleared /\ probe.mid.ber = Fill(BER_WINDOW_SIZE, 0))

C5_Witness ==
    /\ probe.kind = "group" /\ probe.reset
    /\ probe.pre.state.currentPi = Hex4(PI_A)
    /\ probe.pre.state.psHistoryBuffer # <<>> /\ probe.pre.state.rtHistoryBuffer # <<>>
    /\ probe.pre.state.groupTotal > 0 /\ probe.pre.state.afSet # <<>>
    /\ probe.pre.state.afBMap # <<>> /\ probe.pre.state.eonMap # <<>>
    /\ probe.pre.state.rtPlusTags # <<>> /\ probe.pre.state.rtPlusOdaGroup # NoNum
    /\ probe.pre.state.abFlag /\ probe.pre.state.ecc # <<>> /\ probe.pre.state.pin # <<>>
    /\ probe.pre.state.utcTime # <<>> /\ probe.pre.state.lpsBuffer # Fill(32, SP)
    /\ probe.pre.state.ptynBuffer # Fill(8, SP) /\ probe.pre.state.rtBuffer1 # Fill(64, SP)
    /\ probe.pre.state.graceCounter = 0
    /\ ResetCleared

----------------------------------------------------------------------------
(* The frame ingester under arbitrary chunking: the transport writes frames  *)
(* to the byte stream, and the stream reaches ws.onmessage in chunks         *)

MaxFramesIngest == 3
\* chunk lengths, besides the whole of what is in flight
ChunkSizes == {7, 20, 27}

\* the transport writes the text of the well-formed frame f
Write(f) ==
    /\ wire' = wire \o FrameText(f)
    /\ sent' = Append(sent, f.g)
    /\ nFrames' = nFrames + 1
    /\ UNCHANGED <<state, berHistory, lineBuffer, tmcIdCounter, analyzerActive, tmcActive,
                   tmcPaused, rdsData, now, probe, hist, pub, conf, psFrom, okSince, tmcSeen,
                   nTicks, delivered, log,
                   resolver>>

\* the next n bytes in flight arrive as one chunk
Deliver(n) ==
    /\ n \in 1..Len(wire)
    /\ wire' = SubSeq(wire, n + 1, Len(wire))
    /\ Receive(SubSeq(wire, 1, n))
    /\ UNCHANGED <<sent, nFrames>>

FramesIngest ==
    {[kind |-> "hex", g |-> PsGroup(PI_A, 0, 66, 70)],
     [kind |-> "json", g |-> PsGroup(PI_B, 1, 67, 75)]}

NextIngest ==
    \/ \E f \in FramesIngest : nFrames < MaxFramesIngest /\ Write(f)
    \/ \E n \in ChunkSizes \cup {Len(wire)} : Deliver(n)

SpecIngest == Init /\ [][NextIngest]_vars

\* the groups handed to decodeRdsGroup so far, in order (no publisher tick empties
\* the raw group backlog in this specification)
Emitted == [i \in 1..Len(state.rawGroupBuffer) |-> state.rawGroupBuffer[i].blocks]

IsPrefix(p, q) == Len(p) <= Len(q) /\ SubSeq(q, 1, Len(p)) = p

\* C6: the groups emitted to the decoder are the well-formed frames of the byte
\* stream, each once and in stream order: always a prefix of the frames written, and
\* all of them once every byte has been delivered.
C6_InOrderNoLoss ==
    /\ IsPrefix(Emitted, sent)
    /\ wire = <<>> => Emitted = sent

----------------------------------------------------------------------------
(* RadioText double buffering: one station sending 2A and 2B groups with     *)
(* both values of the A/B bit, and RT+ tags                                  *)

MaxFramesRT == 5
MaxTicksRT == 1

FramesRT ==
    {[kind |-> "hex", g |-> <<PI_A, B2(4, 0, 10, 16), 65 * 256 + 66, 67 * 256 + 68>>],
     [kind |-> "hex", g |-> <<PI_A, B2(4, 0, 10, 0), 72 * 256 + 73, 13 * 256 + 32>>],
     [kind |-> "hex", g |-> <<PI_A, B2(5, 0, 10, 17), 0, 88 * 256 + 89>>],
     [kind |-> "hex", g |-> <<PI_A, B2(24, 0, 10, 0), 8192 + 2, 0>>]}

NextRT ==
    \/ \E f \in FramesRT : nFrames < MaxFramesRT /\ Frame(f)
    \/ nTicks < MaxTicksRT /\ Tick

SpecRT == Init /\ [][NextRT]_vars

\* the last group is a 2A or 2B group; its A/B bit; the positions it writes
RtGroup == probe.kind = "group" /\ Bits(probe.g[2], 11, 5) \in {4, 5}
RtFlag == Bit(probe.g[2], 4)
RtWritten ==
    IF Bits(probe.g[2], 11, 5) = 4
    THEN (Bits(probe.g[2], 0, 4) * 4 + 1)..(Bits(probe.g[2], 0, 4) * 4 + 4)
    ELSE (Bits(probe.g[2], 0, 4) * 2 + 1)..(Bits(probe.g[2], 0, 4) * 2 + 2)

\* the buffer and mask the A/B bit of the last group selects, and the other ones
NewBuf(s) == IF RtFlag THEN s.rtBuffer1 ELSE s.rtBuffer0
NewMask(s) == IF RtFlag THEN s.rtMask1 ELSE s.rtMask0
OtherBuf(s) == IF RtFlag THEN s.rtBuffer0 ELSE s.rtBuffer1
OtherMask(s) == IF RtFlag THEN s.rtMask0 ELSE s.rtMask1

\* C7: a 2A/2B group whose A/B bit differs from the stored flag leaves the buffer of
\* the new flag blank and its mask false outside the positions it writes, every RT+
\* tag cached and the flag updated; a group whose bit equals the stored flag changes
\* the selected buffer and mask only at the positions it writes; in both cases the
\* other buffer and mask are unchanged.
C7_RtDoubleBuffer ==
    RtGroup =>
        /\ state.abFlag = RtFlag
        /\ OtherBuf(state) = OtherBuf(probe.mid.state)
        /\ OtherMask(state) = OtherMask(probe.mid.state)
        /\ \A i \in RtWritten : NewMask(state)[i]
        /\ probe.mid.state.abFlag # RtFlag =>
              /\ \A i \in (1..64) \ RtWritten : NewBuf(state)[i] = SP /\ ~NewMask(state)[i]
              /\ Len(state.rtPlusTags) = Len(probe.mid.state.rtPlusTags)
              /\ \A k \in 1..Len(state.rtPlusTags) : state.rtPlusTags[k].isCached
        /\ probe.mid.state.abFlag = RtFlag =>
              /\ \A i \in (1..64) \ RtWritten :
                    /\ NewBuf(state)[i] = NewBuf(probe.mid.state)[i]
                    /\ NewMask(state)[i] = NewMask(probe.mid.state)[i]
              /\ state.rtPlusTags = probe.mid.state.rtPlusTags

\* a flip onto a buffer that held text outside the written positions, with a tag that
\* was not yet cached
C7_Witness ==
    /\ RtGroup /\ probe.mid.state.abFlag # RtFlag
    /\ \E i \in (1..64) \ RtWritten : NewBuf(probe.mid.state)[i] # SP
    /\ \E k \in 1..Len(probe.mid.state.rtPlusTags) : ~probe.mid.state.rtPlusTags[k].isCached
    /\ \A i \in (1..64) \ RtWritten : NewBuf(state)[i] = SP


(***************************************************************************)
(* The BER window and the grace period: bursts of groups of one station,   *)
(* single groups, corrupted frames, reconnects, manual resets and ticks.   *)
(***************************************************************************)
MaxChunksBer == 3
MaxTicksBer == 1
BurstLen == 6

ChunksBer ==
    {Lines([i \in 1..BurstLen |-> PsGroup(PI_A, 0, 66, 70)]),
     HexFrame(PsGroup(PI_A, 1, 67, 75)),
     DashFrame(PsGroup(PI_A, 0, 66, 70))}

NextBer ==
    \/ \E c \in ChunksBer : nFrames < MaxChunksBer /\ Chunk(c)
    \/ nTicks < MaxTicksBer /\ Tick
    \/ onopen
    \/ resetData

SpecBer == Init /\ [][NextBer]_vars

\* the window w after one more outcome x, the oldest entry dropped when w is full
Pushed(w, x) == IF Len(w) >= BER_WINDOW_SIZE THEN Tail(w) \o <<x>> ELSE w \o <<x>>

C8_Nonzero ==
    /\ pub.seen /\ pub.grace = 0
    /\ Len(pub.ber) = BER_WINDOW_SIZE
    /\ rdsData.ber.num > 0

\* the grace counter and the window before the outcome of the last frame was counted
GraceBefore ==
    IF probe.kind = "group" THEN probe.mid.state.graceCounter ELSE probe.pre.state.graceCounter
WindowBefore == IF probe.kind = "group" THEN probe.mid.ber ELSE probe.pre.ber

\* C9 as stated: while the grace counter is positive no frame outcome, success or
\* corruption, is pushed into the window
C9_NoPushInGrace ==
    (probe.kind \in {"group", "corrupted"} /\ GraceBefore > 0) => berHistory = WindowBefore

\* C9 amended: during the grace period a decoded group is not pushed and counts the
\* grace counter down by one, while a corrupted frame pushes 1 and leaves the counter;
\* the counter is 10 less the groups decoded since connect or reset, so it reaches 0
\* after exactly 10 of them; once it is 0 every outcome pushes one entry, 0 for a
\* group and 1 for a corrupted frame, the oldest dropped when the window is full
C9_GraceThenPush ==
    /\ state.graceCounter =
         IF okSince >= GRACE_PERIOD_PACKETS THEN 0 ELSE GRACE_PERIOD_PACKETS - okSince
    /\ (probe.kind = "group" /\ GraceBefore > 0) =>
           /\ berHistory = WindowBefore
           /\ state.graceCounter = GraceBefore - 1
    /\ (probe.kind = "group" /\ GraceBefore = 0) =>
           /\ berHistory = Pushed(WindowBefore, 0)
           /\ state.graceCounter = 0
    /\ probe.kind = "corrupted" =>
           /\ berHistory = Pushed(WindowBefore, 1)
           /\ state.graceCounter = GraceBefore

\* C9 witness: the tenth group since the reset ended the grace period, and the frame
\* after it was pushed onto the full window
C9_Witness ==
    /\ okSince > GRACE_PERIOD_PACKETS
    /\ probe.kind = "group" /\ GraceBefore = 0
    /\ Len(WindowBefore) = BER_WINDOW_SIZE
    /\ Sum(WindowBefore) > 0

\* a corrupted frame during the grace period was pushed
C9_CorruptedInGrace ==
    /\ probe.kind = "corrupted" /\ GraceBefore > 0
    /\ berHistory = WindowBefore \o <<1>>


(***************************************************************************)
(* The Method A list: groups 0A of one station whose third block carries   *)
(* list headers with two different head frequencies and frequency pairs    *)
(* that repeat frequencies already listed.                                 *)
(***************************************************************************)
MaxFramesAf == 4
MaxTicksAf == 1

\* a group 0A of station PI_A with the AF block g3
AfGroup(g3) == <<PI_A, B2(0, 0, 10, 0), g3, 66 * 256 + 70>>
AfHeader(count, code) == (224 + count) * 256 + code
AfPair(c1, c2) == c1 * 256 + c2

FramesAf ==
    {[kind |-> "hex", g |-> AfGroup(g3)] :
        g3 \in {AfHeader(3, 10), AfHeader(2, 20), AfPair(10, 30), AfPair(30, 20), AfPair(20, 40)}}

NextAf ==
    \/ \E f \in FramesAf : nFrames < MaxFramesAf /\ Frame(f)
    \/ nTicks < MaxTicksAf /\ Tick

SpecAf == Init /\ [][NextAf]_vars

NoDuplicates(q) == \A i, j \in 1..Len(q) : q[i] = q[j] => i = j
HeadFirst(q, head) == head # NoFreq => (q # <<>> /\ q[1] = head)

\* C10: the AF list never holds a frequency twice, and the list head, when set, is its
\* first element, in the decoder state and in the published snapshot
C10_AfSetHead ==
    /\ NoDuplicates(state.afSet) /\ HeadFirst(state.afSet, state.afListHead)
    /\ NoDuplicates(rdsData.af) /\ HeadFirst(rdsData.af, rdsData.afListHead)

\* C10 witness: a header named as head a frequency that was already listed behind
\* another head, and the list now starts with it
C10_Witness ==
    /\ probe.kind = "group"
    /\ probe.pre.state.afListHead # NoFreq
    /\ state.afListHead # probe.pre.state.afListHead
    /\ \E i \in 2..Len(probe.pre.state.afSet) : probe.pre.state.afSet[i] = state.afListHead
    /\ Len(state.afSet) = Len(probe.pre.state.afSet)
    /\ state.afSet[1] = state.afListHead

(***************************************************************************)
(* The Method A / Method B decision: 0A groups of one station with list    *)
(* headers for three transmitters and pairs with and without the head.     *)
(***************************************************************************)
MaxFramesAfB == 4

FramesAfB ==
    {[kind |-> "hex", g |-> AfGroup(g3)] :
        g3 \in {AfHeader(3, 10), AfHeader(2, 20), AfHeader(2, 30),
                AfPair(10, 40), AfPair(50, 10), AfPair(10, 60), AfPair(40, 50)}}

NextAfB == \E f \in FramesAfB : nFrames < MaxFramesAfB /\ Frame(f)

SpecAfB == Init /\ [][NextAfB]_vars

\* an entry is plausibly full: size >= 0.75 * expected, or expected <= 2 and size =
\* expected, or expected > 5 and size > 4
Plausible(e) ==
    \/ 4 * Len(e.afs) >= 3 * e.expected
    \/ (e.expected <= 2 /\ Len(e.afs) = e.expected)
    \/ (e.expected > 5 /\ Len(e.afs) > 4)

PlausibleEntries(afBMap) == {i \in 1..Len(afBMap) : Plausible(afBMap[i])}

\* more than one entry is plausibly full, or exactly one is and its pairs name the
\* head in more than 35% of the cases
MethodBHolds(afBMap) ==
    \/ Cardinality(PlausibleEntries(afBMap)) > 1
    \/ /\ Cardinality(PlausibleEntries(afBMap)) = 1
       /\ \A i \in PlausibleEntries(afBMap) :
             afBMap[i].pairCount > 0 /\ 100 * afBMap[i].matchCount > 35 * afBMap[i].pairCount

\* the last frame was a group 0A whose AF block differs from the remembered one
AfUpdated ==
    /\ probe.kind = "group"
    /\ Bits(probe.g[2], 11, 5) = 0
    /\ probe.mid.state.lastGroup0A3 # probe.g[3]

\* the entry of head frequency h was announced with 3 frequencies and three pairs
\* naming h followed
ThreePairsWithHead(e) ==
    e.expected = 3 /\ e.pairCount = 3 /\ e.matchCount = 3 /\ Len(e.afs) = 4

\* C11: once an AF update has run, afType is "B" exactly when more than one afBMap
\* entry is plausibly full, or exactly one is and has pairCount > 0 and
\* matchCount / pairCount > 0.35, and "A" otherwise; before the first update it is
\* "Unknown" with an empty map; a header for 3 frequencies followed by three distinct
\* pairs that each name the head gives "B"
C11_AfType ==
    /\ AfUpdated => state.afType # "Unknown"
    /\ state.afType = "Unknown" => state.afBMap = <<>>
    /\ state.afType # "Unknown" =>
          state.afType = (IF MethodBHolds(state.afBMap) THEN "B" ELSE "A")
    /\ (Len(state.afBMap) = 1 /\ ThreePairsWithHead(state.afBMap[1])) => state.afType = "B"

\* C11 witness: header (3, h) and three distinct pairs with h: one plausibly full
\* entry, expected 3, pairCount 3, matchCount 3, Method B
C11_Witness ==
    /\ AfUpdated
    /\ Len(state.afBMap) = 1 /\ ThreePairsWithHead(state.afBMap[1])
    /\ state.afBMap[1].key = decodeAf(10)
    /\ state.afType = "B"

\* two plausibly full lists whose pairs never name their head: Method B
C11_TwoLists ==
    /\ AfUpdated
    /\ Cardinality(PlausibleEntries(state.afBMap)) = 2
    /\ \A i \in 1..Len(state.afBMap) : state.afBMap[i].matchCount = 0
    /\ state.afType = "B"

\* one plausibly full list whose pairs never name its head: Method A
C11_OneListA ==
    /\ AfUpdated
    /\ Cardinality(PlausibleEntries(state.afBMap)) = 1
    /\ state.afType = "A"

(***************************************************************************)
(* TMC: 8A user messages with two dedup keys that differ in the direction  *)
(* and a tuning message, while the user starts, pauses and clears TMC and  *)
(* the clock advances.                                                     *)
(***************************************************************************)
MaxFramesTmc == 3

\* an 8A user message (lines 695-703) and an 8A tuning message (lines 676-682)
TmcUserGroup(durationCode, direction, extent, eventCode, location) ==
    <<PI_A, B2(16, 0, 10, 0),
      durationCode * 8192 + direction * 2048 + extent * 256 + eventCode \div 8,
      (eventCode % 8) * 4096 + location>>
TmcTuningGroup(ltn, sid) == <<PI_A, B2(16, 0, 10, 16), ltn * 1024 + sid * 4, 0>>

FramesTmc ==
    {[kind |-> "hex", g |-> g] :
        g \in {TmcUserGroup(1, 0, 1, 101, 300), TmcUserGroup(0, 1, 1, 101, 300),
               TmcTuningGroup(5, 3)}}

NextTmc ==
    \/ \E f \in FramesTmc : nFrames < MaxFramesTmc /\ Frame(f)
    \/ Advance
    \/ toggleTmc
    \/ tmcActive /\ toggleTmcPause
    \/ state.tmcBuffer # <<>> /\ resetTmc

SpecTmc == Init /\ [][NextTmc]_vars

TmcKeys(buf) == [i \in 1..Len(buf) |-> TmcKeyOf(buf[i])]

\* the last frame was an 8A group; the TMC switches have not been touched since
LastWas8A == probe.kind = "group" /\ Bits(probe.g[2], 11, 5) = 16
TmcGateOpen == tmcActive /\ ~tmcPaused
LastWasTmcUser == LastWas8A /\ TmcGateOpen /\ ~Bit(probe.g[2], 4)

\* the stored messages before the payload of the last group was applied
TmcBefore == probe.mid.state.tmcBuffer
TmcHit == {i \in 1..Len(TmcBefore) : TmcKeyOf(TmcBefore[i]) = TmcKeyIn(probe.g)}

\* C12: no two stored TMC messages share (locationCode, eventCode, direction, extent),
\* in the decoder and in the published snapshot; a user message whose key is stored
\* adds no entry and sets that entry's receivedTime and expiresTime to the new values
\* and its updateCount one higher, leaving everything else; updateCount is the number
\* of user messages with that key processed since the entry was stored
C12_TmcDedup ==
    /\ NoDuplicates(TmcKeys(state.tmcBuffer))
    /\ NoDuplicates(TmcKeys(rdsData.tmcMessages))
    /\ Len(tmcSeen) = Len(state.tmcBuffer)
    /\ \A i \in 1..Len(state.tmcBuffer) :
          \E j \in 1..Len(tmcSeen) :
             tmcSeen[j] = [key |-> TmcKeyOf(state.tmcBuffer[i]), n |-> state.tmcBuffer[i].updateCount]
    /\ (LastWasTmcUser /\ TmcHit # {}) =>
          /\ Len(state.tmcBuffer) = Len(TmcBefore)
          /\ \A i \in 1..Len(TmcBefore) :
                state.tmcBuffer[i] =
                   IF i \in TmcHit
                   THEN [TmcBefore[i] EXCEPT
                           !.receivedTime = TimeStr(probe.mid.now),
                           !.expiresTime = TmcExpires(Bits(probe.g[3], 13, 3), probe.mid.now),
                           !.updateCount = @ + 1]
                   ELSE TmcBefore[i]

\* C12 witness: a stored message was received again at a later time: still one entry
\* for its key, update count 2, the later received and expiry times
C12_Witness ==
    /\ LastWasTmcUser /\ TmcHit # {}
    /\ Len(state.tmcBuffer) = 2
    /\ \E i \in TmcHit :
          /\ state.tmcBuffer[i].updateCount = 2
          /\ state.tmcBuffer[i].receivedTime = TimeStr(StartTime + ClockStep)
          /\ TmcBefore[i].receivedTime = TimeStr(StartTime)
          /\ state.tmcBuffer[i].expiresTime # TmcBefore[i].expiresTime

\* the positions i above j of a list of stored messages
Above(buf) == {p \in (1..Len(buf)) \X (1..Len(buf)) : p[1] < p[2]}

\* C13 as stated: of two stored messages the one nearer the head has the later or equal
\* receivedTime
C13_NewestFirst ==
    \A p \in Above(state.tmcBuffer) :
        state.tmcBuffer[p[1]].receivedTime >= state.tmcBuffer[p[2]].receivedTime

\* C13 amended: the stored messages are in the order in which their entries were
\* created, newest entry first (ids strictly descending from the head); a user message
\* whose key is stored refreshes the times of its entry where it stands and moves
\* nothing
C13_NewestCreatedFirst ==
    /\ \A p \in Above(state.tmcBuffer) : state.tmcBuffer[p[1]].id > state.tmcBuffer[p[2]].id
    /\ (LastWasTmcUser /\ TmcHit # {}) => TmcKeys(state.tmcBuffer) = TmcKeys(TmcBefore)
    /\ (LastWasTmcUser /\ TmcHit = {} /\ Len(TmcBefore) < TMC_CAP) =>
          /\ state.tmcBuffer # <<>>
          /\ TmcKeyOf(state.tmcBuffer[1]) = TmcKeyIn(probe.g)
          /\ Tail(state.tmcBuffer) = TmcBefore

\* C13 witness: the older of two entries was received again later: it stays behind the
\* newer entry and carries the later receivedTime
C13_Witness ==
    /\ LastWasTmcUser /\ TmcHit = {2}
    /\ Len(state.tmcBuffer) = 2
    /\ state.tmcBuffer[2].receivedTime > state.tmcBuffer[1].receivedTime
    /\ state.tmcBuffer[2].id < state.tmcBuffer[1].id

\* C14: apart from the station reset that a group confirming a new PI runs before its
\* payload, an 8A group leaves tmcBuffer and tmcServiceInfo as they were unless TMC is
\* active and not paused when the group is processed; and a step that turns tmcActive
\* off leaves tmcPaused false
C14_TmcGate ==
    /\ [](LastWas8A /\ ~TmcGateOpen =>
             /\ state.tmcBuffer = probe.mid.state.tmcBuffer
             /\ state.tmcServiceInfo = probe.mid.state.tmcServiceInfo)
    /\ [][(tmcActive /\ ~tmcActive') => ~tmcPaused']_vars

\* C14 witness: TMC was paused after a message and a tuning record were stored, and an
\* 8A user message with a new key arrived and was not stored
C14_Witness ==
    /\ LastWas8A /\ tmcActive /\ tmcPaused
    /\ ~Bit(probe.g[2], 4) /\ TmcHit = {}
    /\ Len(state.tmcBuffer) = 1
    /\ state.tmcServiceInfo # InitServiceInfo

(***************************************************************************)
(* The analyzer switch: groups of two stations, a corrupted frame, resets  *)
(* of the analyzer and ticks while the user switches the analyzer on and   *)
(* off.                                                                    *)
(***************************************************************************)
MaxChunksAn == 2
MaxTicksAn == 2

ChunksAn ==
    {HexFrame(PsGroup(PI_A, 0, 66, 70)),
     Lines([i \in 1..PI_CONFIRM_COUNT |-> PsGroup(PI_B, 1, 67, 75)]),
     DashFrame(PsGroup(PI_A, 0, 66, 70))}

NextAn ==
    \/ \E c \in ChunksAn : nFrames < MaxChunksAn /\ Chunk(c)
    \/ nTicks < MaxTicksAn /\ Tick
    \/ toggleAnalyzer
    \/ state.groupTotal > 0 /\ resetAnalyzer

SpecAn == Init /\ [][NextAn]_vars

AnalyzerView(snap) ==
    [groupCounts |-> snap.groupCounts, groupTotal |-> snap.groupTotal,
     groupSequence |-> snap.groupSequence]

\* C15: a snapshot published while the analyzer is switched off carries the
\* groupCounts, groupTotal and groupSequence of the snapshot published before it
C15_AnalyzerFrozen ==
    (pub.seen /\ ~pub.active) => AnalyzerView(rdsData) = AnalyzerView(pub.prev)

\* C15 witness: the analyzer had counted groups and was switched off; frames or a reset
\* changed the counters of the decoder, and the next snapshot still shows the counts
\* of the snapshot before it
C15_Witness ==
    /\ pub.seen /\ ~pub.active
    /\ rdsData.groupTotal > 0
    /\ AnalyzerView(state) # AnalyzerView(rdsData)
    /\ rdsData.pi # pub.prev.pi

(***************************************************************************)
(* A long reception of one station. Every four seconds a burst arrives and *)
(* the UI loop runs before the next one. The station changes its PS name   *)
(* and its RadioText every other burst.                                    *)
(***************************************************************************)
MaxBursts == 403

\* the bursts received so far are those of the clock steps before this one
BurstNo == (now - StartTime) \div ClockStep

\* the name and text on air during burst k: the first lasts three bursts, the later
\* ones two
OnAir(k) == IF k <= 2 THEN 0 ELSE ((k - 1) \div 2) % 2

\* burst k: the first PS segment and the RadioText "HI\r " or "YI\r "
Burst(k) ==
    Lines(<< PsGroup(PI_A, 0, 66 + OnAir(k), 70),
             <<PI_A, B2(4, 0, 10, 0), (72 + 17 * OnAir(k)) * 256 + 73, 13 * 256 + 32>> >>)

NextLong ==
    \/ nFrames = BurstNo /\ nFrames < MaxBursts /\ Chunk(Burst(BurstNo))
    \/ nTicks < nFrames /\ Tick
    \/ nFrames = BurstNo + 1 /\ nTicks = nFrames /\ Wait

SpecLong == Init /\ [][NextLong]_vars

\* no two neighbours of the list q agree in field f
PsAdjacentDiffer(q) == \A i \in 1..(Len(q) - 1) : q[i].ps # q[i + 1].ps
RtAdjacentDiffer(q) == \A i \in 1..(Len(q) - 1) : q[i].text # q[i + 1].text

\* C16: no two adjacent entries of the PS history have the same PS and no two adjacent
\* entries of the RT history have the same text, in the decoder and in the published
\* snapshot, also once the cap of 200 entries drops the oldest one
C16_HistoryAdjacent ==
    /\ PsAdjacentDiffer(state.psHistoryBuffer) /\ RtAdjacentDiffer(state.rtHistoryBuffer)
    /\ PsAdjacentDiffer(rdsData.psHistory) /\ RtAdjacentDiffer(rdsData.rtHistory)

\* C16 witness: both histories are full and their oldest entries have been dropped,
\* after a name that stayed on air over three ticks was logged once
C16_Witness ==
    /\ Len(rdsData.psHistory) = HISTORY_CAP /\ Len(rdsData.rtHistory) = HISTORY_CAP
    /\ rdsData.psHistory[HISTORY_CAP].time # TimeStr(StartTime + ClockStep)
    /\ rdsData.rtHistory[HISTORY_CAP].time # TimeStr(StartTime + ClockStep)
    /\ rdsData.psHistory[1].ps # rdsData.psHistory[2].ps

(***************************************************************************)
(* Bounded resources: bursts of 50 frames (PS, RadioText, an EON mapped    *)
(* frequency, an RT+ tag, 45 TMC user messages with new locations and a    *)
(* corrupted frame), each followed by a tick, with TMC and the analyzer    *)
(* switched on before the stream starts.                                   *)
(***************************************************************************)
MaxBigBursts == 61
TmcPerBurst == 45

BigBurst(k) ==
    Lines(<< PsGroup(PI_A, 0, 66, 70),
             <<PI_A, B2(4, 0, 10, 0), 72 * 256 + 73, 13 * 256 + 32>>,
             <<PI_A, B2(28, 0, 10, 5), (1 + (k % 6)) * 256 + 100, 4660>>,
             <<PI_A, B2(24, 0, 10, 0), (1 + (k % 7)) * 8192 + 2, 0>> >>
          \o [i \in 1..TmcPerBurst |-> TmcUserGroup(1, 0, 1, 101, k * TmcPerBurst + i)])
    \o DashFrame(PsGroup(PI_A, 0, 66, 70))

NextCaps ==
    \/ nFrames = 0 /\ ~tmcActive /\ toggleTmc
    \/ nFrames = 0 /\ ~analyzerActive /\ toggleAnalyzer
    \/ /\ tmcActive /\ analyzerActive
       /\ nTicks = nFrames /\ nFrames < MaxBigBursts
       /\ Chunk(BigBurst(nFrames))
    \/ nTicks < nFrames /\ Tick

SpecCaps == Init /\ [][NextCaps]_vars

\* the bounds of the lists of a decoder state or of a snapshot
EonBounded(eon) == \A i \in 1..Len(eon) : Len(eon[i].mappedFreqs) <= EON_MAPPED_CAP

\* the length of a sequence that has taken total entries and lost its SEQUENCE_TRIM
\* oldest ones each time it grew beyond SEQUENCE_CAP
TrimmedLen(total) ==
    IF total <= SEQUENCE_CAP THEN total
    ELSE SEQUENCE_CAP - SEQUENCE_TRIM + 1 + ((total - SEQUENCE_CAP - 1) % SEQUENCE_TRIM)

MaxChunksCor == 3
MaxTicksCor == 1

\* a frame whose PI block is dashed, and one whose block 3 is a run of two dashes
DashPiFrame(g) ==
    UNKNOWN_PI \o <<SP>> \o Hex4(g[2]) \o <<SP>> \o Hex4(g[3]) \o <<SP>> \o Hex4(g[4]) \o <<10>>
DashShortFrame(g) ==
    Hex4(g[1]) \o <<SP>> \o Hex4(g[2]) \o <<SP>> \o <<DASH, DASH>> \o <<SP>> \o Hex4(g[4]) \o <<10>>

ChunksCor ==
    {Lines(StationGroups),
     Lines([i \in 1..(PI_CONFIRM_COUNT - 1) |-> PsGroup(PI_B, 1, 67, 75)]),
     DashFrame(PsGroup(PI_B, 1, 67, 75)),
     DashPiFrame(PsGroup(PI_B, 1, 67, 75)),
     DashShortFrame(PsGroup(PI_B, 1, 67, 75))}

NextCor ==
    \/ \E c \in ChunksCor : nFrames < MaxChunksCor /\ Chunk(c)
    \/ nTicks < MaxTicksCor /\ Tick
    \/ nFrames = 0 /\ toggleAnalyzer

SpecCor == Init /\ [][NextCor]_vars

\* the decoder state s after a corrupted frame: dirty and, with the analyzer on, one
\* more "--" in the sequence, in its count and in the total
AfterCorrupted(s, active) ==
    IF active
    THEN [s EXCEPT !.isDirty = TRUE,
                   !.groupTotal = @ + 1,
                   !.groupSequence = IF Len(@) >= SEQUENCE_CAP
                                     THEN SubSeq(@ \o <<"--">>, SEQUENCE_TRIM + 1, Len(@) + 1)
                                     ELSE @ \o <<"--">>,
                   !.groupCounts = CountUp(@, "--")]
    ELSE [s EXCEPT !.isDirty = TRUE]

MaxFramesPub == 2
MaxResetsPub == 1

FramesPub ==
    {[kind |-> "hex", g |-> PsGroup(PI_A, 0, 66, 70)],
     [kind |-> "hex", g |-> PsGroup(PI_A, 1, 67, 75)],
     [kind |-> "dash", g |-> PsGroup(PI_A, 0, 66, 70)]}

NextPub ==
    \/ \E f \in FramesPub : nFrames < MaxFramesPub /\ Frame(f)
    \/ Tick
    \/ nTicks < MaxResetsPub /\ resetData

SpecPub == Init /\ [][NextPub]_vars

\* the UI loop keeps running: requestAnimationFrame(loop) at line 1079
SpecPubFair == SpecPub /\ WF_vars(Tick)

\* nothing is waiting to be published
Clean == ~state.isDirty /\ state.rawGroupBuffer = <<>>

\* the snapshot shows the decoder as it is now (recentGroups holds the groups of the
\* last tick only)
Shown(snap) == [snap EXCEPT !.recentGroups = <<>>]
UpToDate == Shown(rdsData) = Shown(Snapshot(rdsData, state, berHistory, analyzerActive))

\* C19: a decoded group, a corrupted frame and a manual reset leave the state dirty; a
\* tick that finds the state dirty or a backlog of raw groups delivers one snapshot
\* that shows the decoder after all groups processed so far and clears the dirty
\* mark; while nothing is dirty and the backlog is empty the snapshot stays as it is;
\* and with ticks occurring again and again every dirty state leads to a clean state
\* whose snapshot is up to date
C19_DirtyPublished ==
    /\ [](probe.kind \in {"group", "corrupted"} => state.isDirty)
    /\ [][resetData => state'.isDirty]_vars
    /\ [][nTicks' # nTicks => (~Clean /\ Clean' /\ UpToDate' /\ nTicks' = nTicks + 1)]_vars
    /\ [][Clean => rdsData' = rdsData]_vars
    /\ []((Clean /\ pub.seen) => UpToDate)
    /\ (~Clean ~> (Clean /\ UpToDate))

\* C19 witness: after a snapshot was delivered another group was decoded and a later
\* tick delivered the cumulative state of both groups
C19_Witness ==
    /\ Clean /\ pub.seen /\ nTicks >= 2
    /\ pub.prev.ps # rdsData.ps
    /\ rdsData.ps = <<66, 70, 67, 75, SP, SP, SP, SP>>

(***************************************************************************)
(* The delivered snapshot and the groups decoded after it: EON groups of   *)
(* one network carrying different mapped frequencies and a TMC user        *)
(* message that repeats, with TMC switched on before the stream starts.    *)
(***************************************************************************)
MaxFramesShare == 3
MaxTicksShare == 2

\* a 14A group of variant 5 (mapped frequency) about the network 0x1234
EonMappedGroup(g3) == <<PI_A, B2(28, 0, 10, 5), g3, 4660>>

FramesShare ==
    {[kind |-> "hex", g |-> EonMappedGroup(1 * 256 + 100)],
     [kind |-> "hex", g |-> EonMappedGroup(2 * 256 + 100)],
     [kind |-> "hex", g |-> TmcUserGroup(1, 0, 1, 101, 300)]}

NextShare ==
    \/ \E f \in FramesShare : tmcActive /\ nFrames < MaxFramesShare /\ Frame(f)
    \/ nTicks < MaxTicksShare /\ Tick
    \/ nFrames = 0 /\ ~tmcActive /\ toggleTmc
    \/ Advance

SpecShare == Init /\ [][NextShare]_vars

\* C20: the EON networks and the TMC messages that the holder of the delivered
\* snapshot reads are the ones the snapshot had when it was delivered, whatever
\* groups were decoded since
C20_SnapshotImmutable ==
    pub.seen => /\ delivered.eonData = rdsData.eonData
                /\ delivered.tmcMessages = rdsData.tmcMessages

(***************************************************************************)
(* The backlog of raw groups and the snapshots: chunks of one or two       *)
(* groups as hex tuples or as a JSON record and of a corrupted frame,      *)
(* ticks and manual resets while groups wait in the backlog.               *)
(***************************************************************************)
MaxChunksRaw == 3
MaxTicksRaw == 2

ChunksRaw ==
    {HexFrame(PsGroup(PI_A, 0, 66, 70)),
     Lines(<<PsGroup(PI_A, 1, 67, 75), PsGroup(PI_B, 0, 68, 69)>>),
     JsonFrame(PsGroup(PI_B, 1, 67, 75)),
     DashFrame(PsGroup(PI_A, 0, 66, 70))}

NextRaw ==
    \/ \E c \in ChunksRaw : nFrames < MaxChunksRaw /\ Chunk(c)
    \/ nTicks < MaxTicksRaw /\ Tick
    \/ state.rawGroupBuffer # <<>> /\ resetData

SpecRaw == Init /\ [][NextRaw]_vars

\* C21: the groups shown in the recentGroups of the snapshots so far, followed by
\* the groups waiting in the backlog, are the decoded groups in the order they were
\* processed; a tick publishes the whole backlog as recentGroups and empties it; a
\* corrupted frame adds nothing to the backlog
C21_RecentGroups ==
    /\ [](log.shown \o BlocksOf(state.rawGroupBuffer) = log.decoded)
    /\ [][nTicks' # nTicks => /\ rdsData'.recentGroups = state.rawGroupBuffer
                              /\ state'.rawGroupBuffer = <<>>
                              /\ log'.shown = log.decoded]_vars
    /\ [](probe.kind = "corrupted" =>
             state.rawGroupBuffer = probe.pre.state.rawGroupBuffer)

\* C21 witness: two snapshots showed three decoded groups, two of them in the second
\* snapshot, and a reset came between the groups and the tick
C21_Witness ==
    /\ nTicks = 2 /\ Len(log.decoded) = 3 /\ log.shown = log.decoded
    /\ Len(rdsData.recentGroups) = 2
    /\ state.currentPi = UNKNOWN_PI

(***************************************************************************)
(* The location service: calls of resolveLocations that overlap, with the  *)
(* remote endpoints answering, refusing or timing out.                     *)
(***************************************************************************)

\* the earliest time at which a waiting call goes on
NoneBefore(r, t) == \A j \in 1..Len(r.calls) : Waiting(r.calls[j]) => t <= r.calls[j].at

\* resolveLocations(lcds, cid, tabcd) is called gap ms from now, before any waiting
\* call goes on; o tells whether a fetch of the local file succeeds
resolve(args, local, gap, o) ==
    /\ NoneBefore(resolver, resolver.time + gap)
    /\ resolver' = Called([resolver EXCEPT !.time = @ + gap], args, local, o)
    /\ UNCHANGED decoderVars

\* the call that is due first goes on from its await; a request that departs in
\* this step settles with outcome o
Resume(i, o) ==
    /\ i \in 1..Len(resolver.calls)
    /\ Waiting(resolver.calls[i])
    /\ NoneBefore(resolver, resolver.calls[i].at)
    /\ resolver' = Resumed([resolver EXCEPT !.time = resolver.calls[i].at], i, o)
    /\ UNCHANGED decoderVars

\* clearLocationCache (lines 277-281)
clearLocationCache ==
    /\ resolver' = [resolver EXCEPT !.locationCache = {}, !.pendingResolutions = {},
                                    !.formatCache = {}]
    /\ UNCHANGED decoderVars

Germany3 == [lcds |-> <<1, 2, 9>>, cid |-> 58, tabcd |-> 1]
France2 == [lcds |-> <<1, 7>>, cid |-> 9, tabcd |-> 1]
Done(c) == c.pc \in {"returned", "raised"}

(***************************************************************************)
(* Calls one after the other: a call, and when it has completed the same   *)
(* call again at once.                                                     *)
(***************************************************************************)
MaxRepeats == 2

NextAgain ==
    \/ \E args \in {Germany3, France2} :
          resolver.calls = <<>> /\ resolve(args, FALSE, 0, "ok")
    \/ /\ Len(resolver.calls) \in 1..(MaxRepeats - 1)
       /\ Done(resolver.calls[Len(resolver.calls)])
       /\ resolve(resolver.calls[1].args, FALSE, 0, "ok")
    \/ \E i \in 1..MaxRepeats, o \in {"ok", "busy", "timeout"} : Resume(i, o)

SpecAgain == Init /\ [][NextAgain]_vars

\* C22: when a call has returned and the same call made at once has returned too,
\* both returned the same map and the second one sent no request
C22_Idempotent ==
    \A i \in 2..Len(resolver.calls) :
        (resolver.calls[i].pc = "returned" /\ resolver.calls[i - 1].pc = "returned")
        => /\ resolver.calls[i].results = resolver.calls[i - 1].results
           /\ resolver.calls[i].ios = 0

\* C23: any two consecutive remote requests depart at least RATE_LIMIT_MS apart
C23_RateLimit ==
    \A k \in 2..Len(resolver.requests) :
        resolver.requests[k].at - resolver.requests[k - 1].at >= RATE_LIMIT_MS

\* C26: when the last call has completed and the requests of its last batch all
\* failed (no response arrived on any attempt), the call raised the error and none
\* of the codes of that batch is in the cache
C26_TransientRaises ==
    \A i \in 1..Len(resolver.calls) :
        LET c == resolver.calls[i]
        IN (i = Len(resolver.calls) /\ Done(c) /\ c.ended > 0 /\ ~c.okSeen)
           => /\ c.pc = "raised"
              /\ \A k \in KeysOf(c) : ~Has(resolver.locationCache, k)

(***************************************************************************)
(* Calls that overlap: the calls are made one after the other before the   *)
(* first of them goes on from its first await; lists of more than          *)
(* BATCH_SIZE codes.                                                       *)
(***************************************************************************)
MaxCalls == 2
\* as many requests may fail as one query makes attempts
MaxFailures == MAX_RETRIES + 1

\* BATCH_SIZE + 1 codes of country 58:1 from code first on
Codes51(first) == [lcds |-> [k \in 1..(BATCH_SIZE + 1) |-> first + k - 1], cid |-> 58, tabcd |-> 1]

\* the requests that were not answered with a result
Failures(r) == Cardinality({k \in 1..Len(r.requests) : r.requests[k].outcome # "ok"})

\* the calls that have a batch open
Active(c) == c.pc \in {"rate", "backoff", "fetch", "rate2"}

NextOverlap ==
    \/ \E args \in {Codes51(1), Codes51(BATCH_SIZE + 1)} :
          /\ Len(resolver.calls) < MaxCalls
          /\ resolver.time = LOAD_TIME
          /\ resolve(args, FALSE, 0, "ok")
    \/ \E i \in 1..MaxCalls, o \in {"ok", "timeout"} :
          /\ o = "ok" \/ Failures(resolver) < MaxFailures
          /\ Resume(i, o)

SpecOverlap == Init /\ [][NextOverlap]_vars

\* C24: no two requests are in flight at the same time whose batches share a key
C24_NoDuplicateInFlight ==
    \A i, j \in 1..Len(resolver.calls) :
        (i # j /\ resolver.calls[i].pc = "fetch" /\ resolver.calls[j].pc = "fetch")
        => KeysOf(resolver.calls[i]) \cap KeysOf(resolver.calls[j]) = {}

\* the keys call c has marked pending so far: those of its batches up to the
\* current one
AddedBy(c) ==
    UNION {{CacheKey(c.args, c.batches[n][k]) : k \in 1..Len(c.batches[n])} : n \in 1..c.b}

\* C25: every pending key belongs to the open batch of a call in progress, so a
\* call that has returned or raised holds no pending key; and in the step in which
\* a call completes, a key it added is no longer pending unless another call in
\* progress has it in its open batch
C25_PendingReleased ==
    /\ [](\A k \in resolver.pendingResolutions :
            \E j \in 1..Len(resolver.calls) :
                Active(resolver.calls[j]) /\ k \in KeysOf(resolver.calls[j]))
    /\ [][\A i \in 1..Len(resolver.calls) :
            (Done(resolver'.calls[i]) /\ ~Done(resolver.calls[i]))
            => \A k \in AddedBy(resolver'.calls[i]) \cap resolver'.pendingResolutions :
                  \E j \in 1..Len(resolver.calls) :
                      j # i /\ Active(resolver'.calls[j]) /\ k \in KeysOf(resolver'.calls[j])]_vars

\* a call has raised after the failure of its second batch, another call that
\* overlapped it and asked for the same codes has returned, and nothing is pending
C25_Witness ==
    \E i, j \in 1..Len(resolver.calls) :
        /\ resolver.calls[i].pc = "raised" /\ resolver.calls[i].b = 2
        /\ resolver.calls[j].pc = "returned" /\ resolver.calls[j].ended > 0
        /\ KeysOf(resolver.calls[j]) \subseteq AddedBy(resolver.calls[i])
        /\ resolver.pendingResolutions = {}

\* C27: when a batch ends without an error every code of it that the response
\* lacks is cached as not found with zero coordinates; cache entries are never
\* removed; and a call made later gets the not-found entry of a cached code in its
\* result and does not ask for that code again (no request at all when every code
\* is cached)
C27_NegativeCaching ==
    /\ [][\A i \in 1..Len(resolver.calls) :
            (resolver'.calls[i].ended > resolver.calls[i].ended /\ resolver'.calls[i].pc # "raised")
            => \A l \in Range(BatchOf(resolver.calls[i])) \ resolver'.calls[i].found :
                  LET k == CacheKey(resolver.calls[i].args, l)
                  IN /\ Has(resolver'.locationCache, k)
                     /\ Get(resolver'.locationCache, k) = NotFoundLoc(l)
                     /\ NotFoundLoc(l).lat = 0 /\ NotFoundLoc(l).lon = 0]_vars
    /\ [][\A e \in resolver.locationCache : Has(resolver'.locationCache, e.key)]_vars
    /\ [][Len(resolver'.calls) > Len(resolver.calls)
          => LET c == resolver'.calls[Len(resolver'.calls)]
                 cached(l) == Has(resolver.locationCache, CacheKey(c.args, l))
             IN /\ \A l \in Range(c.args.lcds) :
                      (cached(l) /\ Get(resolver.locationCache, CacheKey(c.args, l)).status = "not_found")
                      => /\ [lcd |-> l, loc |-> NotFoundLoc(l)] \in c.results
                         /\ l \notin Range(c.codes)
                /\ (\A l \in Range(c.args.lcds) : cached(l))
                   => c.pc = "returned" /\ resolver'.requests = resolver.requests]_vars

\* the first call got locations 1 and 2 from the server and nothing for code 9; the
\* call made after it has returned the not-found entry for 9 without a request
C27_Witness ==
    /\ Len(resolver.calls) = 2
    /\ resolver.calls[1].pc = "returned" /\ resolver.calls[1].found = {1, 2}
    /\ resolver.calls[2].pc = "returned" /\ resolver.calls[2].ios = 0
    /\ [lcd |-> 9, loc |-> NotFoundLoc(9)] \in resolver.calls[2].results

(***************************************************************************)
(* Calls that look in the local file first, one after the other.           *)
(***************************************************************************)
MaxLookups == 2

Berlin2 == [lcds |-> <<1, 4>>, cid |-> 58, tabcd |-> 1]

NextLocal ==
    \/ \E args \in {Germany3, Berlin2, France2}, o \in {"ok", "timeout"} :
          /\ Len(resolver.calls) < MaxLookups
          /\ \A i \in 1..Len(resolver.calls) : Done(resolver.calls[i])
          /\ resolve(args, TRUE, 0, o)
    \/ \E i \in 1..MaxLookups, o \in {"ok", "busy"} : Resume(i, o)

SpecLocal == Init /\ [][NextLocal]_vars

\* the entry of code l in the file of country k, if any
InFile(k, l) == {d \in UNION {f.data : f \in {g \in LocalFiles : g.key = k}} : d.lcd = l}

\* the file of the call's country was there for call c: loaded by it or before it
FromFile(c) == c.local /\ c.pc = "returned" /\ c.outcome \in {"loaded", "cached"}

MaxFramesHist == 4
MaxSecondsHist == 5

\* the UI loop has published everything decoded so far
Published == ~state.isDirty /\ state.rawGroupBuffer = <<>>

\* a second passes
Second ==
    /\ now' = now + 1000
    /\ UNCHANGED <<state, berHistory, lineBuffer, tmcIdCounter, analyzerActive, tmcActive,
                   tmcPaused, rdsData, wire, probe, hist, sent, pub, conf, psFrom, okSince,
                   tmcSeen, nFrames, nTicks, delivered, log, resolver>>

\* the PS segments "BF" and "CK" at address 0
FramesHist ==
    {[kind |-> "hex", g |-> PsGroup(PI_A, 0, 66, 70)],
     [kind |-> "hex", g |-> PsGroup(PI_A, 0, 67, 75)]}

NextHist ==
    \/ \E f \in FramesHist : nFrames < MaxFramesHist /\ Published /\ Frame(f)
    \/ Tick
    \/ now < StartTime + MaxSecondsHist * 1000 /\ Published /\ Second

SpecHist == Init /\ [][NextHist]_vars

\* C29: the PS history grows only in a turn of the UI loop, and only when the PI is
\* confirmed, more than 3000 ms have passed since it was established, the loop has
\* seen the same PS for at least 1000 ms (an earlier turn saw this PS and no turn
\* since saw another), the PS is not blank and differs from the PS of the head
\* entry; the new head records the PI, the PS and the PTY of that moment and the
\* older entries follow it
C29_PsHistoryAppend ==
    [][Len(state'.psHistoryBuffer) > Len(state.psHistoryBuffer)
       => /\ nTicks' = nTicks + 1
          /\ state.currentPi # UNKNOWN_PI
          /\ state.piEstablishmentTime > 0
          /\ now - state.piEstablishmentTime > 3000
          /\ state.psCandidateString = state.psBuffer
          /\ now - state.psStableSince >= 1000
          /\ state'.psStableSince = state.psStableSince
          /\ Trim(state.psBuffer) # <<>>
          /\ state.psHistoryBuffer # <<>> => state.psHistoryBuffer[1].ps # state.psBuffer
          /\ state'.psHistoryBuffer[1].pi = state.currentPi
          /\ state'.psHistoryBuffer[1].ps = state.psBuffer
          /\ state'.psHistoryBuffer[1].pty = state.pty
          /\ Tail(state'.psHistoryBuffer) = state.psHistoryBuffer]_vars

\* a name was logged 4 s after the PI was established, and a second name that the
\* loop had seen for a second has been logged after it
C29_Witness ==
    /\ Len(state.psHistoryBuffer) = 2
    /\ state.psHistoryBuffer[2].time = TimeStr(StartTime + 4000)
    /\ state.psHistoryBuffer[2].ps # state.psHistoryBuffer[1].ps
    /\ state.psHistoryBuffer[1].pi = Hex4(PI_A)
    /\ state.piEstablishmentTime = StartTime

(***************************************************************************)
(* The RadioText history against the clock: 2A groups of one station that  *)
(* write the second half of a text into one buffer and the texts "OK" and  *)
(* "NO" into the other, each followed by a turn of the UI loop, and the    *)
(* clock moving second by second.                                          *)
(***************************************************************************)
MaxFramesText == 4
MaxSecondsText == 4

\* "X\r  " at address 1 of buffer A, "OK\r " and "NO\r " at address 0 of buffer B
FramesText ==
    {[kind |-> "hex", g |-> <<PI_A, B2(4, 0, 10, 1), 88 * 256 + 13, 32 * 256 + 32>>],
     [kind |-> "hex", g |-> <<PI_A, B2(4, 0, 10, 16), 79 * 256 + 75, 13 * 256 + 32>>],
     [kind |-> "hex", g |-> <<PI_A, B2(4, 0, 10, 16), 78 * 256 + 79, 13 * 256 + 32>>]}

NextText ==
    \/ \E f \in FramesText : nFrames < MaxFramesText /\ Published /\ Frame(f)
    \/ Tick
    \/ now < StartTime + MaxSecondsText * 1000 /\ Published /\ Second

SpecText == Init /\ [][NextText]_vars

\* the active RT buffer, its mask and the index of its first '\r' (0 if none)
ActiveBuffer(s) == IF s.abFlag THEN s.rtBuffer1 ELSE s.rtBuffer0
ActiveMask(s) == IF s.abFlag THEN s.rtMask1 ELSE s.rtMask0
Terminator(s) == IndexOf(ActiveBuffer(s), CR, 1)

\* every position before the terminator, or every position if there is none, has
\* been written since the last flip
Written(s) ==
    \A i \in 1..(IF Terminator(s) # 0 THEN Terminator(s) - 1 ELSE 64) : ActiveMask(s)[i]

\* the text before the terminator, or the whole buffer
TextOf(s) ==
    IF Terminator(s) # 0 THEN SubSeq(ActiveBuffer(s), 1, Terminator(s) - 1)
    ELSE ActiveBuffer(s)

\* C30 as stated: the RT history grows only in a turn of the UI loop, and only when
\* the PI is confirmed and was established at least 3 s before, every position of
\* the active buffer before the terminator (every position if there is none) has
\* been written since the last flip, the loop has seen the same text for at least
\* 2000 ms, the text is not blank and differs from the text of the head entry
C30_RtHistoryAppend ==
    [][Len(state'.rtHistoryBuffer) > Len(state.rtHistoryBuffer)
       => /\ nTicks' = nTicks + 1
          /\ state.currentPi # UNKNOWN_PI
          /\ now - state.piEstablishmentTime >= 3000
          /\ Written(state)
          /\ state.rtCandidateString = TextOf(state)
          /\ now - state.rtStableSince >= 2000
          /\ Trim(TextOf(state)) # <<>>
          /\ state.rtHistoryBuffer # <<>> => state.rtHistoryBuffer[1].text # TextOf(state)]_vars

\* C30 amended: the RT history grows only in a turn of the UI loop, and only when
\* the PI is confirmed, every position of the active buffer before the terminator
\* (every position if there is none) has been written since the last flip, the loop
\* has seen the same text for at least 2000 ms, the text is not blank and differs
\* from the text of the head entry; the new head records that text. The time since
\* the PI was established is not asked for.
C30_RtHistoryAppendNoSettle ==
    [][Len(state'.rtHistoryBuffer) > Len(state.rtHistoryBuffer)
       => /\ nTicks' = nTicks + 1
          /\ state.currentPi # UNKNOWN_PI
          /\ Written(state)
          /\ state.rtCandidateString = TextOf(state)
          /\ now - state.rtStableSince >= 2000
          /\ state'.rtStableSince = state.rtStableSince
          /\ Trim(TextOf(state)) # <<>>
          /\ state.rtHistoryBuffer # <<>> => state.rtHistoryBuffer[1].text # TextOf(state)
          /\ state'.rtHistoryBuffer[1].text = TextOf(state)
          /\ Tail(state'.rtHistoryBuffer) = state.rtHistoryBuffer]_vars

\* the text "OK" was logged 2 s after the PI was established and after the loop
\* first saw it, and the text "NO" that replaced it was logged 2 s later
C30_Witness ==
    /\ Len(state.rtHistoryBuffer) = 2
    /\ state.rtHistoryBuffer[2].text = <<79, 75>>
    /\ state.rtHistoryBuffer[2].time = TimeStr(StartTime + 2000)
    /\ state.rtHistoryBuffer[1].text = <<78, 79>>
    /\ state.rtHistoryBuffer[1].time = TimeStr(StartTime + 4000)
    /\ state.piEstablishmentTime = StartTime
    /\ state.rtStableSince = StartTime + 2000

(***************************************************************************)
(* The detection of the query format: calls for a country mapped with node *)
(* tags, one mapped with relations and one mapped partly in either way,    *)
(* that may overlap, and clearLocationCache.                               *)
(***************************************************************************)
MaxDetects == 2

Italy1 == [lcds |-> <<1>>, cid |-> 25, tabcd |-> 1]
Italy2 == [lcds |-> <<2>>, cid |-> 25, tabcd |-> 1]

NextDetect ==
    \/ \E args \in {Germany3, France2, Italy1, Italy2} :
          /\ Len(resolver.calls) < MaxDetects
          /\ resolve(args, FALSE, 0, "ok")
    \/ \E i \in 1..MaxDetects, o \in {"ok", "timeout"} :
          /\ o = "ok" \/ Failures(resolver) < MaxFailures
          /\ Resume(i, o)
    \/ resolver.calls # <<>> /\ resolver.formatCache # {} /\ clearLocationCache

SpecDetect == Init /\ [][NextDetect]_vars

\* the step is a clearLocationCache
IsClear == resolver'.calls = resolver.calls /\ resolver'.formatCache = {}

\* call i sends a request in the step
Sends(i) ==
    /\ Len(resolver'.requests) = Len(resolver.requests) + 1
    /\ resolver'.requests[Len(resolver'.requests)].call = i

\* the response of a strategy of call i arrives in the step, with these locations
Answered(i) == resolver.calls[i].pc = "fetch" /\ resolver.calls[i].outcome = "ok"
Answer(i) ==
    QueryResult(resolver.calls[i].format, BatchOf(resolver.calls[i]), resolver.calls[i].args)

\* a cached format stays as it is until clearLocationCache
FormatKept ==
    \A e \in resolver.formatCache :
        IsClear \/ (Has(resolver'.formatCache, e.key) /\ Get(resolver'.formatCache, e.key) = e.val)

\* a request for a country with a cached format is a query of that format; for a
\* country without one it is a node query, or a relation query after the node
\* query of the same batch
FormatUsed ==
    \A i \in 1..Len(resolver.calls) :
        LET k == CountryKey(resolver.calls[i].args)
            c == resolver.calls[i]
            d == resolver'.calls[i]
        IN Sends(i)
           => IF Has(resolver.formatCache, k) THEN d.format = Get(resolver.formatCache, k)
              ELSE \/ d.format = "node"
                   \/ d.format = "relation" /\ c.b = d.b /\ c.stage \in {"node", "relation"}

\* the first strategy that answers with locations is cached and its locations are
\* the result of the batch; nothing else is cached
FormatCached ==
    \A i \in 1..Len(resolver.calls) :
        LET k == CountryKey(resolver.calls[i].args)
            c == resolver.calls[i]
            d == resolver'.calls[i]
        IN /\ (Answered(i) /\ Answer(i) # {} /\ d # c)
              => /\ Has(resolver'.formatCache, k)
                 /\ Get(resolver'.formatCache, k) = c.format
                 /\ d.ended = c.ended + 1
                 /\ d.found = {f.lcd : f \in Answer(i)}
           /\ (d.ended = c.ended + 1 /\ ~(Answered(i) /\ Answer(i) # {}))
              => (Has(resolver'.formatCache, k) <=> Has(resolver.formatCache, k))

\* a format enters the cache only with an answer that has locations
FormatEarned ==
    \A e \in resolver'.formatCache :
        ~Has(resolver.formatCache, e.key)
        => \E i \in 1..Len(resolver.calls) :
              /\ CountryKey(resolver.calls[i].args) = e.key
              /\ Answered(i) /\ Answer(i) # {} /\ resolver.calls[i].format = e.val

\* C31: a batch for a country with a cached format queries in that format only;
\* without one it queries nodes, then relations, caches the first format that
\* answers with locations and returns them, goes on to the next format on an
\* empty answer or an error, and caches nothing when neither answers; a cached
\* format does not change until clearLocationCache
C31_FormatDetection ==
    [][FormatKept /\ FormatUsed /\ FormatCached /\ FormatEarned]_vars

(***************************************************************************)
(* The attempts of a query: calls that may overlap, whose requests are     *)
(* answered, refused with 429 or 504 ("busy"), fail otherwise ("error")    *)
(* or time out.                                                            *)
(***************************************************************************)
MaxQueryCalls == 2

NextRetry ==
    \/ \E args \in {Germany3, France2} :
          /\ Len(resolver.calls) < MaxQueryCalls
          /\ resolve(args, FALSE, 0, "ok")
    \/ \E i \in 1..MaxQueryCalls, o \in {"ok", "busy", "error", "timeout"} :
          /\ o = "ok" \/ Failures(resolver) < MaxFailures
          /\ Resume(i, o)

SpecRetry == Init /\ [][NextRetry]_vars

\* the query of call i has raised its error in the step: the known format lets it
\* through to resolveLocations, the detection goes on to the relation query or
\* ends the batch with nothing found
Raised(c, d) ==
    \/ c.stage = "known" /\ d.pc = "raised"
    \/ c.stage = "node" /\ d.pc = "rate2" /\ d.b = c.b
    \/ c.stage = "relation" /\ d.ended = c.ended + 1 /\ d.found = {}

\* attempt k of a query goes to endpoint (active + k) mod N, active being
\* activeEndpoint when the query started, and there are MAX_RETRIES + 1 attempts
\* at most
Rotation ==
    \A i \in 1..Len(resolver.calls) :
        LET c == resolver.calls[i]
        IN c.pc \in {"backoff", "fetch"}
           => /\ c.attempt <= MAX_RETRIES
              /\ c.endpoint = (c.first + c.attempt) % ENDPOINTS

\* what the settling of a request leads to
AfterResponse ==
    \A i \in 1..Len(resolver.calls) :
        LET c == resolver.calls[i]
            d == resolver'.calls[i]
        IN (c.pc = "fetch" /\ d # c)
           => IF c.outcome = "ok"
              THEN /\ resolver'.activeEndpoint = c.endpoint
                   /\ d.okSeen
                   /\ d.attempt = c.attempt \/ d.attempt = 0
              ELSE IF c.attempt < MAX_RETRIES
              THEN /\ d.pc = "backoff" /\ d.attempt = c.attempt + 1
                   /\ d.stage = c.stage /\ d.b = c.b
                   /\ resolver'.activeEndpoint = resolver.activeEndpoint
              ELSE /\ Raised(c, d)
                   /\ resolver'.activeEndpoint = resolver.activeEndpoint

\* C32: a query makes MAX_RETRIES + 1 requests at most, attempt k going to endpoint
\* (active + k) mod N with active as it was when the query started; an answer ends
\* the query and makes its endpoint the active one; a 429, a 504, a timeout or
\* another failure leads to the next attempt, and after the last attempt the
\* error is raised
C32_QueryAttempts == [](Rotation) /\ [][AfterResponse]_vars

(***************************************************************************)
(* The ODA registry and RT+: a 2A group that writes a text, 3A groups that *)
(* announce RT+ in group 11A, 8A or 4A, and groups 11A, 12A, 8A and 4A     *)
(* that carry an RT+ payload (item running, item toggle, one tag).         *)
(***************************************************************************)
MaxFramesOda == 4

\* the codes of the groups 4A, 8A, 11A and 12A
OdaCodes == {8, 16, 22, 24}

\* a 3A group that binds RT+ to the group of that code
BindGroup(code) == <<PI_A, B2(6, 0, 10, code), 0, RTPLUS_AID>>

\* a group of that code with item toggle and item running set and the tag
\* (type 1, start 0, length 3)
PayloadGroup(code) == <<PI_A, B2(code, 0, 10, 24), 8198, 0>>

FramesOda ==
    {[kind |-> "hex", g |-> <<PI_A, B2(4, 0, 10, 0), 72 * 256 + 73, 89 * 256 + 65>>]}
    \cup {[kind |-> "hex", g |-> BindGroup(c)] : c \in OdaCodes \ {24}}
    \cup {[kind |-> "hex", g |-> PayloadGroup(c)] : c \in OdaCodes}

NextOda == \E f \in FramesOda : nFrames < MaxFramesOda /\ Frame(f)

SpecOda == Init /\ [][NextOda]_vars

\* the RT+ fields of the decoder state, the tags without their stale marks
RtPlusView(s) ==
    <<s.hasRtPlus, s.rtPlusItemRunning, s.rtPlusItemToggle,
      [i \in 1..Len(s.rtPlusTags) |-> [s.rtPlusTags[i] EXCEPT !.isCached = FALSE]]>>

\* the last group was handled as an RT+ payload: the flags are those of its B2 and
\* the tags are updated from its B3 and B4
HandledAsRtPlus ==
    /\ state.hasRtPlus
    /\ state.rtPlusItemRunning = Bit(probe.g[2], 4)
    /\ state.rtPlusItemToggle = Bit(probe.g[2], 3)
    /\ state.rtPlusTags = GroupRtPlus(probe.mid.state, probe.g, probe.mid.now).rtPlusTags

\* the last group left the RT+ fields alone
NotHandledAsRtPlus == RtPlusView(state) = RtPlusView(probe.mid.state)

\* a 3A group that names the RT+ application binds the code in its B2
Binds ==
    (Bits(probe.g[2], 11, 5) = 6 /\ (probe.g[3] = RTPLUS_AID \/ probe.g[4] = RTPLUS_AID))
    => state.rtPlusOdaGroup = Bits(probe.g[2], 0, 5)

\* C33 as stated: a group is handled as an RT+ payload exactly when its code is
\* the bound rtPlusOdaGroup or it is an 11A or a 12A group, whichever code was
\* bound; a 3A group with the RT+ application id binds the code
C33_RtPlusDispatch ==
    probe.kind = "group"
    => LET code == Bits(probe.g[2], 11, 5)
           isPayload == code = probe.mid.state.rtPlusOdaGroup \/ code \in {22, 24}
       IN /\ isPayload => HandledAsRtPlus
          /\ ~isPayload => NotHandledAsRtPlus
          /\ Binds

\* the codes of the groups whose handlers come before RT+ in decodeRdsGroup:
\* 0A, 0B, 1A, 2A, 2B, 3A, 8A and 14A
EarlierCodes == {0, 1, 2, 4, 5, 6, 16, 28}

\* C33 amended: a group is handled as an RT+ payload exactly when it is none of
\* 0A, 0B, 1A, 2A, 2B, 3A, 8A, 14A and its code is the bound rtPlusOdaGroup or it
\* is a 12A group; a 3A group with the RT+ application id binds the code
C33_RtPlusDispatchAfterOthers ==
    probe.kind = "group"
    => LET code == Bits(probe.g[2], 11, 5)
           isPayload == /\ code \notin EarlierCodes
                        /\ code = probe.mid.state.rtPlusOdaGroup \/ code = 24
       IN /\ isPayload => HandledAsRtPlus
          /\ ~isPayload => NotHandledAsRtPlus
          /\ Binds

\* RT+ was bound to 11A and an 11A group has stored the tag "HIYA"
C33_Witness ==
    /\ probe.kind = "group"
    /\ Bits(probe.g[2], 11, 5) = 22
    /\ probe.mid.state.rtPlusOdaGroup = 22
    /\ ~probe.mid.state.hasRtPlus
    /\ state.rtPlusItemRunning
    /\ Len(state.rtPlusTags) = 1
    /\ state.rtPlusTags[1].text = <<72, 73, 89, 65>>

(***************************************************************************)
(* The cap on the RT+ tags: a 2A group that writes a text and 12A groups   *)
(* that each carry two tags, of seven content types in all, arriving in    *)
(* the same millisecond or four seconds apart.                             *)
(***************************************************************************)
MaxFramesTags == 5

\* a 12A group with the tags (type t1, start 0, length 3) and (type t2, start 0,
\* length 3)
TagsGroup(t1, t2) == <<PI_A, B2(24, 0, 10, 0), t1 * 8192 + 6, t2 * 2048 + 3>>

FramesTags ==
    {[kind |-> "hex", g |-> <<PI_A, B2(4, 0, 10, 0), 72 * 256 + 73, 89 * 256 + 65>>],
     [kind |-> "hex", g |-> TagsGroup(1, 2)],
     [kind |-> "hex", g |-> TagsGroup(3, 4)],
     [kind |-> "hex", g |-> TagsGroup(5, 6)],
     [kind |-> "hex", g |-> TagsGroup(7, 1)]}

NextTags ==
    \/ \E f \in FramesTags : nFrames < MaxFramesTags /\ Frame(f)
    \/ Advance

SpecTags == Init /\ [][NextTags]_vars

\* the content types the last group stored or refreshed a tag for
StoredByGroup ==
    LET s == [probe.mid.state EXCEPT !.isDirty = FALSE]
        g == probe.g
    IN {t \in {Bits(g[3], 13, 3)} :
            processTag(s, t, Bits(g[3], 7, 6), Bits(g[3], 1, 6), probe.mid.now).isDirty}
       \cup {t \in {Bits(g[4], 11, 5)} :
            processTag(s, t, Bits(g[4], 5, 6), Bits(g[4], 0, 5), probe.mid.now).isDirty}

\* the content types of a list of tags
TagKeys(tags) == {tags[i].key : i \in 1..Len(tags)}

\* C34: after an RT+ group at most RTPLUS_CAP tags are held; the tags the group
\* stored or refreshed are among them, and no tag was dropped that has a later
\* timestamp than a tag that was kept
C34_TagsMostRecent ==
    (probe.kind = "group" /\ IsRtPlusGroup(probe.mid.state, Bits(probe.g[2], 11, 5)))
    => LET before == probe.mid.state.rtPlusTags
           old == TagKeys(before) \ StoredByGroup
       IN /\ Len(state.rtPlusTags) <= RTPLUS_CAP
          /\ StoredByGroup \subseteq TagKeys(state.rtPlusTags)
          /\ \A e \in old \ TagKeys(state.rtPlusTags), k \in old \cap TagKeys(state.rtPlusTags) :
                MapGet(before, e).timestamp <= MapGet(before, k).timestamp

----------------------------------------------------------------------------
(* The buffer watchdog under noise *)

MaxChunksNoise == 4

\* n characters that are neither hexadecimal digits, dashes, separators nor braces
Noise(n) == [i \in 1..n |-> 122]

\* the lengths of the noise chunks
NoiseSizes == {200, 300, 600}

\* as many decoded groups as the grace period lasts, in one chunk
GraceGroups == [i \in 1..GRACE_PERIOD_PACKETS |-> PsGroup(PI_A, 0, 66, 70)]

ChunksNoise == {Noise(n) : n \in NoiseSizes} \cup {Lines(GraceGroups)}

NextNoise ==
    \/ \E c \in ChunksNoise : nFrames < MaxChunksNoise /\ Chunk(c)
    \/ Advance

SpecNoise == Init /\ [][NextNoise]_vars

\* a chunk has been handled and the watchdog has cut the buffer
WatchdogCut == nFrames' = nFrames + 1 /\ probe'.kind = "watchdog"

\* C35: the unparsed input buffer never holds more than 500 characters once a chunk
\* has been handled, and every cut of the watchdog counts one failure in the BER
\* window.
C35_BufferBounded ==
    /\ [](Len(lineBuffer) <= WATCHDOG_LIMIT)
    /\ [][WatchdogCut => berHistory' = updateBer(probe'.mid.ber, TRUE)]_vars

----------------------------------------------------------------------------
(* Programme Service name: the segments of groups 0A and 0B *)

MaxFramesPs == 4

\* 0B groups carrying two PS characters at address a; block 3 repeats the PI
PsGroupB(pi, a, c1, c2) == <<pi, B2(1, 0, 10, a), pi, c1 * 256 + c2>>

\* 'BFM ROCK' in four 0A groups, another segment for address 1 in a 0B group, and a
\* segment of a second station
FramesPs ==
    {[kind |-> "hex", g |-> PsGroup(PI_A, 0, 66, 70)],
     [kind |-> "hex", g |-> PsGroup(PI_A, 1, 77, 32)],
     [kind |-> "hex", g |-> PsGroup(PI_A, 2, 82, 79)],
     [kind |-> "hex", g |-> PsGroup(PI_A, 3, 67, 75)],
     [kind |-> "hex", g |-> PsGroupB(PI_A, 1, 88, 89)],
     [kind |-> "hex", g |-> PsGroup(PI_B, 2, 90, 90)]}

NextPs ==
    \/ \E f \in FramesPs : nFrames < MaxFramesPs /\ Frame(f)
    \/ resetData

SpecPs == Init /\ [][NextPs]_vars

\* group g is a 0A or 0B group
IsGroup0(g) == Bits(g[2], 11, 5) \in {0, 1}

\* the groups decoded since the last reset, the group that ran a deep reset included
SinceReset == SubSeq(log.decoded, Len(log.decoded) - okSince + 1, Len(log.decoded))

\* the positions in SinceReset of the 0A and 0B groups with address a
SegmentsOf(a) == {i \in 1..Len(SinceReset) : IsGroup0(SinceReset[i])
                                             /\ Bits(SinceReset[i][2], 0, 2) = a}

\* the latest of them
LatestSegment(a) == SinceReset[CHOOSE i \in SegmentsOf(a) : \A j \in SegmentsOf(a) : j <= i]

\* the step decodes a 0A or 0B group
DecodesGroup0 == nFrames' = nFrames + 1 /\ probe'.kind = "group" /\ IsGroup0(probe'.g)

\* it writes the two bytes of block 4 at the two positions of its address and keeps
\* the other positions as they are after the PI block
WritesSegment ==
    \A i \in 1..8 :
        state'.psBuffer[i] =
            IF i = 2 * Bits(probe'.g[2], 0, 2) + 1 THEN probe'.g[4] \div 256
            ELSE IF i = 2 * Bits(probe'.g[2], 0, 2) + 2 THEN probe'.g[4] % 256
            ELSE probe'.mid.state.psBuffer[i]

\* once every address was received, the buffer is made of the latest segments
LatestSegments ==
    (\A a \in 0..3 : SegmentsOf(a) # {})
    => \A a \in 0..3 : /\ state.psBuffer[2 * a + 1] = LatestSegment(a)[4] \div 256
                       /\ state.psBuffer[2 * a + 2] = LatestSegment(a)[4] % 256

\* C36: a 0A or 0B group with address a writes positions 2a and 2a+1 of the PS
\* buffer (counted from 0) with the upper and the lower byte of block 4 and leaves
\* the other six positions alone; once the four addresses have been received since
\* the last reset, the buffer is the concatenation, in address order, of the
\* segments of the latest group of each address.
C36_PsSegments == [](LatestSegments) /\ [][DecodesGroup0 => WritesSegment]_vars

\* the four groups of 'BFM ROCK' were decoded in one pass and the buffer reads so
C36_Witness ==
    /\ okSince = 4
    /\ \A a \in 0..3 : SegmentsOf(a) # {}
    /\ state.psBuffer = <<66, 70, 77, 32, 82, 79, 67, 75>>

----------------------------------------------------------------------------
(* Clock time: group 4A *)

MaxFramesClock == 2

\* the 4A group with the day mjd, the UTC hour and minute, the sign of the local
\* offset and its size in half hours
ClockGroup(mjd, hour, minute, sign, halves) ==
    <<PI_A, B2(8, 0, 10, mjd \div 32768), (mjd % 32768) * 2 + hour \div 16,
      (hour % 16) * 4096 + minute * 64 + sign * 16 + halves>>

\* the days are 13 October 2021 (59500), 1 January 2020 (58849) and no date (0)
FramesClock ==
    {[kind |-> "hex", g |-> ClockGroup(mjd, hour, 30, sign, 4)] :
        mjd \in {0, 59500, 58849}, hour \in {0, 14, 23}, sign \in {0, 1}}

NextClock == \E f \in FramesClock : nFrames < MaxFramesClock /\ Frame(f)

SpecClock == Init /\ [][NextClock]_vars

\* the last step decoded the 4A group of 13 October 2021, 14:30 UTC, offset +2 h
ClockExample == probe.kind = "group" /\ probe.g = ClockGroup(59500, 14, 30, 0, 4)

\* the minute of the day in a text that ends with HH:MM
MinuteOfDay(str) ==
    LET n == Len(str)
    IN ((str[n - 4] - 48) * 10 + (str[n - 3] - 48)) * 60 + (str[n - 1] - 48) * 10 + (str[n] - 48)

\* the date of a text that starts with DD/MM/YYYY
DateOf(str) == SubSeq(str, 1, 10)

\* the last step decoded a 4A group with a date
ClockDecoded ==
    probe.kind = "group" /\ Bits(probe.g[2], 11, 5) = 8
    /\ Bits(probe.g[2], 0, 2) * 32768 + probe.g[3] \div 2 # 0

\* the local time is the UTC time moved by the offset, modulo one day, on the same date
LocalIsUtcPlusOffset ==
    ClockDecoded =>
        /\ DateOf(state.localTime) = DateOf(state.utcTime)
        /\ MinuteOfDay(state.localTime) =
              (MinuteOfDay(state.utcTime)
               + (IF Bit(probe.g[4], 4) THEN 0 - 30 * (probe.g[4] % 16)
                  ELSE 30 * (probe.g[4] % 16))) % 1440

\* C37: the 4A group with mjd 59500, 14:30 UTC and an offset of plus 4 half hours
\* is decoded to the UTC time '03/10/2021 14:30' and the local time
\* '03/10/2021 16:30'.
C37_ClockExample ==
    ClockExample =>
        /\ state.utcTime = <<48, 51, 47, 49, 48, 47, 50, 48, 50, 49, 32, 49, 52, 58, 51, 48>>
        /\ state.localTime = <<48, 51, 47, 49, 48, 47, 50, 48, 50, 49, 32, 49, 54, 58, 51, 48>>

\* C37, amended: the group is decoded to the UTC time '13/10/2021 14:30' and the
\* local time '13/10/2021 16:30', and the local time of any 4A group is its UTC
\* time plus or minus the offset, modulo 1440 minutes.
C37_ClockExample13 ==
    /\ ClockExample =>
        /\ state.utcTime = <<49, 51, 47, 49, 48, 47, 50, 48, 50, 49, 32, 49, 52, 58, 51, 48>>
        /\ state.localTime = <<49, 51, 47, 49, 48, 47, 50, 48, 50, 49, 32, 49, 54, 58, 51, 48>>
    /\ LocalIsUtcPlusOffset

C37_Witness == ClockExample /\ Len(state.localTime) = 16

----------------------------------------------------------------------------
(* The group statistics: decoded groups of two stations, corrupted frames, *)
(* the analyzer switch, resets of the analyzer and manual resets           *)

MaxChunksCount == 3

\* a 0A and a 4A group of the first station, a corrupted frame, and four groups of a
\* second station, which change the confirmed PI
ChunksCount ==
    {HexFrame(PsGroup(PI_A, 0, 66, 70)),
     HexFrame(ClockGroup(59500, 14, 30, 0, 4)),
     DashFrame(PsGroup(PI_A, 0, 66, 70)),
     Lines([i \in 1..PI_CONFIRM_COUNT |-> PsGroup(PI_B, 1, 67, 75)])}

NextCount ==
    \/ \E c \in ChunksCount : nFrames < MaxChunksCount /\ Chunk(c)
    \/ toggleAnalyzer
    \/ resetAnalyzer
    \/ resetData

SpecCount == Init /\ [][NextCount]_vars

RECURSIVE SumCounts(_)
\* the sum of the values of groupCounts
SumCounts(counts) == IF counts = <<>> THEN 0 ELSE Head(counts).n + SumCounts(Tail(counts))

\* C38: the total of the group statistics is the sum of the counts per group type,
\* the count of corrupted frames ('--') included, in every state.
C38_TotalIsSum == state.groupTotal = SumCounts(state.groupCounts)

\* a PI change has cleared the statistics and groups and a corrupted frame were
\* counted after it
C38_Witness ==
    /\ log.decoded # <<>> /\ log.decoded[1][1] = PI_A
    /\ state.currentPi = Hex4(PI_B)
    /\ MapHas(state.groupCounts, "--")
    /\ Len(state.groupCounts) = 2
    /\ state.groupTotal = 2

----------------------------------------------------------------------------
(* The PS history across stations: PS groups of two stations, the UI loop, *)
(* the clock and manual resets                                             *)

MaxChunksStation == 3
MaxTicksStation == 2

\* a PS group of the first station, and four groups of the second station in a row,
\* which change the confirmed PI
ChunksStation ==
    {HexFrame(PsGroup(PI_A, 0, 66, 70)),
     Lines([i \in 1..PI_CONFIRM_COUNT |-> PsGroup(PI_B, 1, 67, 75)])}

NextStation ==
    \/ \E c \in ChunksStation : nFrames < MaxChunksStation /\ Chunk(c)
    \/ nTicks < MaxTicksStation /\ Tick
    \/ Published /\ Advance
    \/ state.currentPi # UNKNOWN_PI /\ resetData

SpecStation == Init /\ [][NextStation]_vars

\* C39: every entry of the PS history carries the PI that is confirmed now; an
\* entry logged for one station is gone once another PI is confirmed or the user
\* resets the decoder.
C39_PsHistoryOfStation ==
    \A i \in 1..Len(state.psHistoryBuffer) : state.psHistoryBuffer[i].pi = state.currentPi

\* the second station has just been confirmed and the entry logged for the first
\* station is gone
C39_Witness ==
    /\ probe.kind = "group" /\ probe.reset
    /\ state.currentPi = Hex4(PI_B)
    /\ probe.pre.state.psHistoryBuffer # <<>>
    /\ probe.pre.state.psHistoryBuffer[1].pi = Hex4(PI_A)
    /\ state.psHistoryBuffer = <<>>

----------------------------------------------------------------------------
(* The manual reset and the group after it: PS groups of two stations, a   *)
(* TMC user message, the TMC and analyzer switches and manual resets       *)

MaxFramesFresh == 3

FramesFresh ==
    {[kind |-> "hex", g |-> PsGroup(PI_A, 0, 66, 70)],
     [kind |-> "hex", g |-> PsGroup(PI_B, 1, 67, 75)],
     [kind |-> "hex", g |-> TmcUserGroup(1, 0, 1, 101, 300)]}

NextFresh ==
    \/ \E f \in FramesFresh : nFrames < MaxFramesFresh /\ Frame(f)
    \/ resetData
    \/ toggleTmc
    \/ nFrames = 0 /\ toggleAnalyzer

SpecFresh == Init /\ [][NextFresh]_vars

\* the memory of a decoder that has just been started
FreshMem == [Mem EXCEPT !.state = InitState, !.ber = <<>>, !.tmcId = 0]

\* the decoder state a freshly started decoder reaches on group g, with the
\* switches and the clock as they are
FreshOn(g) == OnGroup(FreshMem, g, Env).state

\* the last step decoded a group in a state that a manual reset had left
GroupAfterReset ==
    /\ probe.kind = "group"
    /\ probe.pre.state = ResetDataState(probe.pre.state)

\* the manual reset had cleared the PI, its candidate and counter and every
\* per-station field
WasCleared ==
    /\ probe.pre.state.currentPi = UNKNOWN_PI
    /\ probe.pre.state.piCandidate = UNKNOWN_PI
    /\ probe.pre.state.piCounter = 0
    /\ StationOf(probe.pre.state) = InitState

\* the group confirmed its PI at once
ConfirmedAtOnce ==
    /\ probe.reset
    /\ state.currentPi = Hex4(probe.g[1])
    /\ state.piCandidate = Hex4(probe.g[1])
    /\ state.piCounter = 1

\* the station state is the one of a freshly started decoder after the group
AsFresh ==
    LET fresh == FreshOn(probe.g)
    IN /\ StationOf(state) = StationOf(fresh)
       /\ state.piEstablishmentTime = fresh.piEstablishmentTime

\* C40: the group decoded right after a manual reset finds the PI unknown, the
\* candidate and the counter cleared and every per-station field initial; it
\* confirms its PI at once, and the station state after it is the state a freshly
\* started decoder reaches on the same group.
C40_ResetIsFresh == GroupAfterReset => (WasCleared /\ ConfirmedAtOnce /\ AsFresh)

\* a decoder state with the ids of the stored TMC messages put to 0
WithoutIds(s) ==
    [s EXCEPT !.tmcBuffer = [i \in 1..Len(@) |-> [@[i] EXCEPT !.id = 0]]]

\* the station state is the one of a freshly started decoder after the group, the
\* ids of the stored TMC messages apart
AsFreshButIds ==
    LET fresh == FreshOn(probe.g)
    IN /\ StationOf(WithoutIds(state)) = StationOf(WithoutIds(fresh))
       /\ state.piEstablishmentTime = fresh.piEstablishmentTime

\* the TMC message stored by the group has the id the counter gave out last
IdsContinue == \A i \in 1..Len(state.tmcBuffer) : state.tmcBuffer[i].id = tmcIdCounter - 1

\* C40, amended: as above, except that a TMC message stored by the group takes its id
\* from the counter of the session, which the manual reset does not put back to 0.
C40_ResetIsFreshButIds ==
    GroupAfterReset => (WasCleared /\ ConfirmedAtOnce /\ AsFreshButIds /\ IdsContinue)

\* a TMC message was stored before a manual reset and the group after the reset
\* stored one again
C40_Witness ==
    /\ GroupAfterReset /\ okSince = 1
    /\ Len(log.decoded) >= 2
    /\ Len(state.tmcBuffer) = 1 /\ state.tmcBuffer[1].id = 1

====
